---- MODULE Spec2Model ----
(***************************************************************************)
(* Model of the DSA-Helper pipeline: the keyword/regex classifier (client  *)
(* and server variants), the synthetic trace generators (sorting,          *)
(* searching, queue) and the step cursor of the page.                      *)
(*                                                                         *)
(* Source text is modelled character by character: a text is a sequence of *)
(* one-character strings, so that includes(), toLowerCase(), split() and   *)
(* the regular expressions are computed rather than assumed.               *)
(***************************************************************************)
EXTENDS Integers, Sequences, FiniteSets, TLC

(***************************************************************************)
(* Bounds of the model.                                                    *)
(***************************************************************************)
\* number of lines of a source text handed to the classifier
MaxLines == 2
\* length of the longest array of odd numbers handed to the binary search
MaxSearchLen == 16
\* length and largest value of the exhaustively enumerated small arrays
MaxSmallLen == 3
MaxSmallVal == 3

(***************************************************************************)
(* Characters and strings.                                                 *)
(***************************************************************************)
LowerLetters == <<"a","b","c","d","e","f","g","h","i","j","k","l","m","n","o","p","q","r","s","t","u","v","w","x","y","z">>
UpperLetters == <<"A","B","C","D","E","F","G","H","I","J","K","L","M","N","O","P","Q","R","S","T","U","V","W","X","Y","Z">>
Digits == <<"0","1","2","3","4","5","6","7","8","9">>

Range(f) == {f[i] : i \in DOMAIN f}

\* const name = value: the value is computed once and named in what follows
Bind(value, Rest(_)) == Rest(value)

\* {...g, ...f}: the fields of f, and those of g that f does not have
Merge(f, g) == [x \in DOMAIN f \cup DOMAIN g |-> IF x \in DOMAIN f THEN f[x] ELSE g[x]]

\* String.prototype.toLowerCase on one character
ToLowerChar(c) ==
  IF \E i \in 1..26 : UpperLetters[i] = c
    THEN LowerLetters[CHOOSE i \in 1..26 : UpperLetters[i] = c]
    ELSE c

\* String.prototype.toLowerCase
ToLowerCase(s) == [i \in 1..Len(s) |-> ToLowerChar(s[i])]

\* s.includes(k): k occurs as a contiguous substring of s
Includes(s, k) ==
  \E i \in 1..(Len(s) - Len(k) + 1) : SubSeq(s, i, i + Len(k) - 1) = k

\* lines.join(sep)
RECURSIVE Join(_, _)
Join(ls, sep) ==
  IF Len(ls) = 0 THEN <<>>
  ELSE IF Len(ls) = 1 THEN ls[1]
  ELSE ls[1] \o sep \o Join(Tail(ls), sep)

(***************************************************************************)
(* Regular expressions.  A regular expression is a tree of nodes; Ends     *)
(* gives the set of positions at which a match of the node can end when it *)
(* starts at one of the positions P (backtracking explores all of them).   *)
(* The node "ref" is the back-reference \1; g is the text of group 1.      *)
(***************************************************************************)
Lit(k) == [t |-> "lit", k |-> k]
Cls(C) == [t |-> "cls", c |-> C]
NotCls(C) == [t |-> "ncls", c |-> C]
Cat(rs) == [t |-> "cat", rs |-> rs]
Alt(rs) == [t |-> "alt", rs |-> rs]
Star(r) == [t |-> "star", r |-> r]
Plus(r) == Cat(<<r, Star(r)>>)
Opt(r) == Alt(<<r, Lit(<<>>)>>)
BackRef == [t |-> "ref"]
AltLit(ks) == Alt([i \in 1..Len(ks) |-> Lit(ks[i])])

\* \w, \s, \d and . of a JavaScript regular expression
WordClass == Cls(Range(LowerLetters) \cup Range(UpperLetters) \cup Range(Digits) \cup {"_"})
SpaceClass == Cls({" ", "\n", "\t", "\r"})
DigitClass == Cls(Range(Digits))
AnyChar == NotCls({"\n", "\r"})

RECURSIVE Ends(_, _, _, _)
RECURSIVE StarEnds(_, _, _, _, _)
Ends(r, s, P, g) ==
  CASE r.t = "lit" ->
         {p + Len(r.k) : p \in {q \in P : q + Len(r.k) - 1 <= Len(s)
                                          /\ SubSeq(s, q, q + Len(r.k) - 1) = r.k}}
    [] r.t = "ref" ->
         {p + Len(g) : p \in {q \in P : q + Len(g) - 1 <= Len(s)
                                        /\ SubSeq(s, q, q + Len(g) - 1) = g}}
    [] r.t = "cls" -> {p + 1 : p \in {q \in P : q <= Len(s) /\ s[q] \in r.c}}
    [] r.t = "ncls" -> {p + 1 : p \in {q \in P : q <= Len(s) /\ s[q] \notin r.c}}
    [] r.t = "cat" ->
         IF Len(r.rs) = 0 THEN P
         ELSE Ends(Cat(Tail(r.rs)), s, Ends(Head(r.rs), s, P, g), g)
    [] r.t = "alt" -> UNION {Ends(r.rs[i], s, P, g) : i \in 1..Len(r.rs)}
    [] r.t = "star" -> StarEnds(r.r, s, P, P, g)
StarEnds(r, s, seen, frontier, g) ==
  IF frontier = {} THEN seen
  ELSE LET new == Ends(r, s, frontier, g) \ seen
       IN StarEnds(r, s, seen \cup new, new, g)

\* a pattern without group reference, and one of the shape pre (cap) post
\* in which post refers to the text matched by cap
Re(r) == [t |-> "re", r |-> r]
ReRef(pre, cap, post) == [t |-> "reref", pre |-> pre, cap |-> cap, post |-> post]

\* regex.exec(s) !== null for a pattern with the flag i: the match may start
\* anywhere, letters compare without case
Exec(re, s) ==
  LET ls == ToLowerCase(s)
      All == 1..(Len(ls) + 1)
  IN IF re.t = "re"
       THEN Ends(re.r, ls, All, <<>>) # {}
       ELSE \E i \in Ends(re.pre, ls, All, <<>>) :
              \E j \in Ends(re.cap, ls, {i}, <<>>) :
                Ends(re.post, ls, {j}, SubSeq(ls, i, j - 1)) # {}

(***************************************************************************)
(* Splitting, trimming, number parsing and formatting.                     *)
(***************************************************************************)
\* s.split(sep) for a one-character separator
RECURSIVE Split(_, _)
Split(s, sep) ==
  IF \E i \in 1..Len(s) : s[i] = sep
    THEN LET i == CHOOSE k \in 1..Len(s) : s[k] = sep /\ \A j \in 1..(k - 1) : s[j] # sep
         IN <<SubSeq(s, 1, i - 1)>> \o Split(SubSeq(s, i + 1, Len(s)), sep)
    ELSE <<s>>

WhiteSpace == {" ", "\n", "\t", "\r"}

\* s.trim()
RECURSIVE Trim(_)
Trim(s) ==
  IF Len(s) = 0 THEN s
  ELSE IF s[1] \in WhiteSpace THEN Trim(Tail(s))
  ELSE IF s[Len(s)] \in WhiteSpace THEN Trim(SubSeq(s, 1, Len(s) - 1))
  ELSE s

DigitValue(c) == (CHOOSE i \in 1..10 : Digits[i] = c) - 1

\* parseInt of a string of decimal digits
RECURSIVE ParseInt(_)
ParseInt(s) ==
  IF Len(s) = 0 THEN 0
  ELSE 10 * ParseInt(SubSeq(s, 1, Len(s) - 1)) + DigitValue(s[Len(s)])

\* the decimal text of a natural number, as a template literal prints it
RECURSIVE FormatNat(_)
FormatNat(n) ==
  IF n < 10 THEN <<Digits[n + 1]>>
  ELSE FormatNat(n \div 10) \o <<Digits[(n % 10) + 1]>>

\* s.match(pre (grp) post): the text of the group of the leftmost match, the
\* group taking as many characters as the rest of the pattern allows, and
\* the position at which the match starts; <<FALSE>> when there is no match
NoMatch == <<FALSE>>

GroupSpans(pre, grp, post, s, i) ==
  UNION {{<<gs, e>> : e \in {x \in Ends(grp, s, {gs}, <<>>) : Ends(post, s, {x}, <<>>) # {}}} :
           gs \in Ends(pre, s, {i}, <<>>)}

MatchGroup(pre, grp, post, s) ==
  Bind({i \in 1..(Len(s) + 1) : GroupSpans(pre, grp, post, s, i) # {}}, LAMBDA starts :
    IF starts = {} THEN NoMatch
    ELSE Bind(CHOOSE k \in starts : \A j \in starts : k <= j, LAMBDA i :
         Bind(GroupSpans(pre, grp, post, s, i), LAMBDA spans :
         Bind(CHOOSE x \in spans : \A y \in spans : y[2] <= x[2], LAMBDA sp :
           <<TRUE, SubSeq(s, sp[1], sp[2] - 1), i>>))))

\* /\[(\d+(?:\s*,\s*\d+)*)\]/ and match[1].split(',').map(n => parseInt(n.trim()))
ArrayLiteralGroup ==
  Cat(<<Plus(DigitClass),
        Star(Cat(<<Star(SpaceClass), Lit(<<",">>), Star(SpaceClass), Plus(DigitClass)>>))>>)

NumbersOfMatch(m) ==
  LET parts == Split(m[2], ",")
  IN [i \in 1..Len(parts) |-> ParseInt(Trim(parts[i]))]

(***************************************************************************)
(* The client classifier's category table (algorithmPatterns).             *)
(***************************************************************************)
SortingPattern ==
  [type |-> "sorting",
   keywords |->
     <<<<"s","o","r","t">>,
     <<"q","u","i","c","k","s","o","r","t">>,
     <<"m","e","r","g","e","s","o","r","t">>,
     <<"b","u","b","b","l","e","s","o","r","t">>,
     <<"i","n","s","e","r","t","i","o","n","s","o","r","t">>,
     <<"s","e","l","e","c","t","i","o","n","s","o","r","t">>,
     <<"h","e","a","p","s","o","r","t">>>>,
   patterns |->
     <<Re(Cat(<<Lit(<<"f","u","n","c","t","i","o","n">>), Plus(SpaceClass), Star(WordClass), Lit(<<"s","o","r","t">>), Star(WordClass)>>)),
       Re(Cat(<<Lit(<<"d","e","f">>), Plus(SpaceClass), Star(WordClass), Lit(<<"s","o","r","t">>), Star(WordClass)>>)),
       Re(Cat(<<Lit(<<"p","u","b","l","i","c">>), Plus(SpaceClass), Star(Cat(<<Plus(WordClass), Plus(SpaceClass)>>)),
              Star(WordClass), Lit(<<"s","o","r","t">>), Star(WordClass)>>)),
       Re(AltLit(<<<<"l","e","f","t">>, <<"r","i","g","h","t">>, <<"p","i","v","o","t">>, <<"p","a","r","t","i","t","i","o","n">>>>)),
       Re(AltLit(<<<<"s","w","a","p">>, <<"e","x","c","h","a","n","g","e">>, <<"c","o","m","p","a","r","e">>>>))>>]

SearchingPattern ==
  [type |-> "searching",
   keywords |->
     <<<<"s","e","a","r","c","h">>,
     <<"b","i","n","a","r","y">>,
     <<"l","i","n","e","a","r">>,
     <<"f","i","n","d">>,
     <<"l","o","o","k","u","p">>>>,
   patterns |->
     <<Re(Cat(<<Lit(<<"f","u","n","c","t","i","o","n">>), Plus(SpaceClass), Star(WordClass), Lit(<<"s","e","a","r","c","h">>), Star(WordClass)>>)),
       Re(Cat(<<Lit(<<"d","e","f">>), Plus(SpaceClass), Star(WordClass), Lit(<<"s","e","a","r","c","h">>), Star(WordClass)>>)),
       Re(Cat(<<Lit(<<"p","u","b","l","i","c">>), Plus(SpaceClass), Star(Cat(<<Plus(WordClass), Plus(SpaceClass)>>)),
              Star(WordClass), Lit(<<"s","e","a","r","c","h">>), Star(WordClass)>>)),
       Re(Cat(<<AltLit(<<<<"b","i","n","a","r","y">>, <<"l","i","n","e","a","r">>>>), Star(AnyChar), AltLit(<<<<"s","e","a","r","c","h">>, <<"f","i","n","d">>>>)>>)),
       Re(AltLit(<<<<"l","e","f","t">>, <<"r","i","g","h","t">>, <<"m","i","d">>, <<"m","i","d","d","l","e">>>>))>>]

GraphPattern ==
  [type |-> "graph",
   keywords |->
     <<<<"d","f","s">>,
     <<"b","f","s">>,
     <<"d","e","p","t","h">>,
     <<"b","r","e","a","d","t","h">>,
     <<"g","r","a","p","h">>,
     <<"a","d","j","a","c","e","n","c","y">>,
     <<"v","e","r","t","e","x">>,
     <<"e","d","g","e">>,
     <<"n","o","d","e">>>>,
   patterns |->
     <<Re(Cat(<<Lit(<<"f","u","n","c","t","i","o","n">>), Plus(SpaceClass), AltLit(<<<<"d","f","s">>, <<"b","f","s">>, <<"d","e","p","t","h">>, <<"b","r","e","a","d","t","h">>>>)>>)),
       Re(Cat(<<Lit(<<"d","e","f">>), Plus(SpaceClass), AltLit(<<<<"d","f","s">>, <<"b","f","s">>, <<"d","e","p","t","h">>, <<"b","r","e","a","d","t","h">>>>)>>)),
       Re(AltLit(<<<<"a","d","j","a","c","e","n","c","y">>, <<"g","r","a","p","h">>, <<"v","e","r","t","e","x">>, <<"e","d","g","e">>, <<"n","o","d","e">>>>)),
       Re(AltLit(<<<<"v","i","s","i","t","e","d">>, <<"q","u","e","u","e">>, <<"s","t","a","c","k">>>>)),
       Re(AltLit(<<<<"n","e","i","g","h","b","o","r","s">>, <<"a","d","j","a","c","e","n","t">>>>))>>]

TreePattern ==
  [type |-> "tree",
   keywords |->
     <<<<"t","r","e","e">>,
     <<"b","i","n","a","r","y"," ","t","r","e","e">>,
     <<"t","r","a","v","e","r","s","a","l">>,
     <<"i","n","o","r","d","e","r">>,
     <<"p","r","e","o","r","d","e","r">>,
     <<"p","o","s","t","o","r","d","e","r">>>>,
   patterns |->
     <<Re(Cat(<<Lit(<<"f","u","n","c","t","i","o","n">>), Plus(SpaceClass), Star(WordClass), Lit(<<"t","r","e","e">>), Star(WordClass)>>)),
       Re(Cat(<<Lit(<<"d","e","f">>), Plus(SpaceClass), Star(WordClass), Lit(<<"t","r","e","e">>), Star(WordClass)>>)),
       Re(AltLit(<<<<"i","n","o","r","d","e","r">>, <<"p","r","e","o","r","d","e","r">>, <<"p","o","s","t","o","r","d","e","r">>>>)),
       Re(Cat(<<AltLit(<<<<"l","e","f","t">>, <<"r","i","g","h","t">>>>), Star(AnyChar), AltLit(<<<<"c","h","i","l","d">>, <<"n","o","d","e">>>>)>>)),
       Re(AltLit(<<<<"r","o","o","t">>, <<"l","e","a","f">>>>))>>]

RecursionPattern ==
  [type |-> "recursion",
   keywords |->
     <<<<"r","e","c","u","r","s","i","o","n">>,
     <<"r","e","c","u","r","s","i","v","e">>,
     <<"f","i","b","o","n","a","c","c","i">>,
     <<"f","a","c","t","o","r","i","a","l">>>>,
   patterns |->
     <<ReRef(Cat(<<Lit(<<"f","u","n","c","t","i","o","n">>), Plus(SpaceClass)>>), Plus(WordClass),
            Cat(<<Star(SpaceClass), Lit(<<"(">>), Star(NotCls({")"})), Lit(<<")">>), Star(SpaceClass), Lit(<<"{">>),
                  Star(NotCls({"}"})), BackRef, Star(SpaceClass), Lit(<<"(">>)>>)),
       ReRef(Cat(<<Lit(<<"d","e","f">>), Plus(SpaceClass)>>), Plus(WordClass),
            Cat(<<Star(SpaceClass), Lit(<<"(">>), Star(NotCls({")"})), Lit(<<")",":">>),
                  Star(NotCls({":"})), BackRef, Star(SpaceClass), Lit(<<"(">>)>>)),
       Re(AltLit(<<<<"f","i","b","o","n","a","c","c","i">>, <<"f","a","c","t","o","r","i","a","l">>>>)),
       Re(Cat(<<Lit(<<"r","e","t","u","r","n">>), Star(AnyChar), Plus(WordClass), Star(SpaceClass), Lit(<<"(">>)>>))>>]

DpPattern ==
  [type |-> "dynamic programming",
   keywords |->
     <<<<"d","p">>,
     <<"m","e","m","o","i","z","a","t","i","o","n">>,
     <<"t","a","b","u","l","a","t","i","o","n">>,
     <<"d","y","n","a","m","i","c">>>>,
   patterns |->
     <<Re(AltLit(<<<<"m","e","m","o">>, <<"c","a","c","h","e">>, <<"d","p">>>>)),
       Re(Alt(<<Lit(<<"t","a","b","u","l","a","t","i","o","n">>), Cat(<<Lit(<<"b","o","t","t","o","m">>), Opt(AnyChar), Lit(<<"u","p">>)>>)>>)),
       Re(Cat(<<Lit(<<"[">>), Star(AnyChar), Lit(<<"]","[">>), Star(AnyChar), Lit(<<"]">>)>>))>>]

algorithmPatterns ==
  <<SortingPattern, SearchingPattern, GraphPattern, TreePattern, RecursionPattern, DpPattern>>

(***************************************************************************)
(* The server classifier's category table (keywords only).                 *)
(***************************************************************************)
categories ==
  <<[type |-> "sorting",
     keywords |->
       <<<<"s","o","r","t">>,
         <<"q","u","i","c","k","s","o","r","t">>,
         <<"m","e","r","g","e","s","o","r","t">>,
         <<"b","u","b","b","l","e","s","o","r","t">>,
         <<"i","n","s","e","r","t","i","o","n","s","o","r","t">>,
         <<"s","e","l","e","c","t","i","o","n","s","o","r","t">>,
         <<"h","e","a","p","s","o","r","t">>>>],
    [type |-> "searching",
     keywords |->
       <<<<"s","e","a","r","c","h">>,
         <<"b","i","n","a","r","y">>,
         <<"l","i","n","e","a","r">>,
         <<"f","i","n","d">>>>],
    [type |-> "graph",
     keywords |->
       <<<<"d","f","s">>,
         <<"b","f","s">>,
         <<"d","e","p","t","h">>,
         <<"b","r","e","a","d","t","h">>,
         <<"g","r","a","p","h">>,
         <<"a","d","j","a","c","e","n","c","y">>,
         <<"v","e","r","t","e","x">>,
         <<"e","d","g","e">>>>],
    [type |-> "tree",
     keywords |->
       <<<<"t","r","e","e">>,
         <<"b","i","n","a","r","y"," ","t","r","e","e">>,
         <<"t","r","a","v","e","r","s","a","l">>,
         <<"i","n","o","r","d","e","r">>,
         <<"p","r","e","o","r","d","e","r">>,
         <<"p","o","s","t","o","r","d","e","r">>>>],
    [type |-> "recursion",
     keywords |->
       <<<<"r","e","c","u","r","s","i","o","n">>,
         <<"r","e","c","u","r","s","i","v","e">>,
         <<"f","i","b","o","n","a","c","c","i">>,
         <<"f","a","c","t","o","r","i","a","l">>>>]>>

(***************************************************************************)
(* Source lines the classifier is run on; a source text is one to MaxLines *)
(* of them joined by line breaks.                                          *)
(***************************************************************************)
CodeLines ==
  {<<>>,  \* (blank line)
   <<"x"," ","="," ","1">>,  \* x = 1
   <<"s","o","r","t","(","a",")">>,  \* sort(a)
   <<"r","e","t","u","r","n"," ","s","o","r","t","(","a",")">>,  \* return sort(a)
   <<"l","e","f","t"," ","="," ","0">>,  \* left = 0
   <<"t","r","e","e">>,  \* tree
   <<"b","i","n","a","r","y"," ","s","e","a","r","c","h">>,  \* binary search
   <<"f","u","n","c","t","i","o","n"," ","h","e","a","p","S","o","r","t","(","a",")">>,  \* function heapSort(a)
   <<"Q","u","i","c","k","S","o","r","t"," ","v","s"," ","M","e","r","g","e","S","o","r","t">>,  \* QuickSort vs MergeSort
   <<"f","u","n","c","t","i","o","n"," ","f","(","n",")","{","f","(","n",")","}">>  \* function f(n){f(n)}
  }
Texts(n) ==
  {Join(ls, <<"\n">>) : ls \in UNION {[1..k -> CodeLines] : k \in 1..n}}

Min(a, b) == IF a < b THEN a ELSE b

(***************************************************************************)
(* State.                                                                  *)
(***************************************************************************)
VARIABLES
  code,       \* the source text handed to the classifier
  detected,   \* the result of detectAlgorithmType, NoResult before the call
  call,       \* the arguments of the trace generator being invoked
  result,     \* what the trace generator returned, NoResult before the call
  executionResult,        \* the page's execution result, null before the first
  currentStep,            \* the page's step cursor
  isPlaying,              \* the page's playing flag
  executeCodeMutation,    \* the execute request in flight, NoCall when none
  detectAlgorithmMutation, \* the detect requests in flight
  projects                \* the rows of the projects table, by id

vars ==
  <<code, detected, call, result, executionResult, currentStep, isPlaying,
    executeCodeMutation, detectAlgorithmMutation, projects>>

classifyVars == <<code, detected>>
traceVars == <<call, result>>
pageVars ==
  <<executionResult, currentStep, isPlaying, executeCodeMutation, detectAlgorithmMutation>>

storageVars == <<projects>>

NoResult == [impl |-> "none"]
NoCall == [impl |-> "none"]

\* the components that a specification does not exercise stay idle
IdleClassify == code = <<>> /\ detected = NoResult
IdleTrace == call = NoCall /\ result = NoResult
IdlePage ==
  /\ executionResult = [kind |-> "null"]
  /\ currentStep = 0
  /\ isPlaying = FALSE
  /\ executeCodeMutation = NoCall
  /\ detectAlgorithmMutation = {}
IdleStorage == projects = <<>>

(***************************************************************************)
(* JavaScript values that reach the generators as the optional input.      *)
(***************************************************************************)
Undefined == [kind |-> "undefined"]
Num(n) == [kind |-> "number", value |-> n]
Arr(a) == [kind |-> "array", elems |-> a]
Obj(f) == [kind |-> "object", fields |-> f]

\* the truthiness that || tests
Truthy(v) ==
  CASE v.kind = "undefined" -> FALSE
    [] v.kind = "null" -> FALSE
    [] v.kind = "number" -> v.value # 0
    [] OTHER -> TRUE

\* a || b
OrElse(a, b) == IF Truthy(a) THEN a ELSE b

\* a generator that raised a TypeError
Threw == [threw |-> TRUE]

(***************************************************************************)
(* Classifier, client variant (detectAlgorithmType of algorithm-detector). *)
(***************************************************************************)
\* the score of one category: +1 for each keyword the lower-cased text
\* includes, +2 for each pattern that matches the text
\* a score that counts every occurrence of every keyword
KeywordOccurrences(keywords, text) ==
  Cardinality({<<i, at>> \in (1..Len(keywords)) \X (1..Len(text)) :
                 /\ at + Len(keywords[i]) - 1 <= Len(text)
                 /\ SubSeq(text, at, at + Len(keywords[i]) - 1) = keywords[i]})

KeywordHits(keywords, text) ==
  Cardinality({i \in 1..Len(keywords) : Includes(text, keywords[i])})

PatternHits(patterns, text) ==
  Cardinality({i \in 1..Len(patterns) : Exec(patterns[i], text)})

ClientScore(pattern, text) ==
  LET codeNormalized == ToLowerCase(text)
  IN KeywordHits(pattern.keywords, codeNormalized) + 2 * PatternHits(pattern.patterns, text)

\* one iteration of the loop over the categories: a category replaces the
\* current best one only with a strictly greater score
BetterInverted(score, maxScore) == score < maxScore

BetterOrEqual(score, maxScore) == score >= maxScore

Better(score, maxScore) == score > maxScore

RECURSIVE BestOf(_, _, _, _)
BestOf(types, scores, i, best) ==
  IF i > Len(scores) THEN best
  ELSE BestOf(types, scores, i + 1,
              IF Better(scores[i], best.maxScore)
                THEN [maxScore |-> scores[i], detectedType |-> types[i]]
                ELSE best)

\* confidence in tenths: Math.min(maxScore * 0.2, 1.0)
ClientConfidenceUncapped(maxScore) == maxScore * 2

ClientConfidence(maxScore) == Min(maxScore * 2, 10)

ClientDetectAlgorithmType(text) ==
  Bind([i \in 1..Len(algorithmPatterns) |-> ClientScore(algorithmPatterns[i], text)], LAMBDA scores :
  Bind([i \in 1..Len(algorithmPatterns) |-> algorithmPatterns[i].type], LAMBDA types :
  Bind(BestOf(types, scores, 1, [maxScore |-> 0, detectedType |-> "unknown"]), LAMBDA best :
    [impl |-> "client", status |-> 200, type |-> best.detectedType,
     confidence |-> ClientConfidence(best.maxScore),
     maxScore |-> best.maxScore, scores |-> scores, types |-> types])))

(***************************************************************************)
(* Classifier, server variant (detectAlgorithmType of routes.ts).          *)
(***************************************************************************)
\* category.keywords.filter(keyword => code.includes(keyword)).length
ServerMatches(category, text) == KeywordHits(category.keywords, text)

\* confidence in tenths: maxMatches > 0 ? Math.min(maxMatches * 0.3, 1.0) : 0.1
ServerConfidence(maxMatches) == IF maxMatches > 0 THEN Min(maxMatches * 3, 10) ELSE 1

ServerDetectAlgorithmType(text) ==
  Bind([i \in 1..Len(categories) |-> ServerMatches(categories[i], text)], LAMBDA scores :
  Bind([i \in 1..Len(categories) |-> categories[i].type], LAMBDA types :
  Bind(BestOf(types, scores, 1, [maxScore |-> 0, detectedType |-> "unknown"]), LAMBDA best :
    [impl |-> "server", type |-> best.detectedType,
     confidence |-> ServerConfidence(best.maxScore),
     maxScore |-> best.maxScore, scores |-> scores, types |-> types])))

(***************************************************************************)
(* Classification of one source text by either variant.                    *)
(***************************************************************************)
InitClassify ==
  /\ code \in Texts(MaxLines)
  /\ detected = NoResult
  /\ IdleTrace
  /\ IdlePage
  /\ IdleStorage

\* the page's classifier is called on the text of the editor
ClientDetect ==
  /\ detected = NoResult
  /\ detected' = ClientDetectAlgorithmType(code)
  /\ UNCHANGED <<code, traceVars, storageVars, pageVars>>

\* POST /api/algorithm/detect: 400 when the code or the language is missing
\* (empty), else the classifier runs on the lower-cased code
DetectRoute(text, language) ==
  IF text = <<>> \/ language = ""
    THEN [impl |-> "server", status |-> 400]
    ELSE Merge(ServerDetectAlgorithmType(ToLowerCase(text)), [status |-> 200])

ServerDetect ==
  /\ detected = NoResult
  /\ detected' = DetectRoute(code, "javascript")
  /\ UNCHANGED <<code, traceVars, storageVars, pageVars>>

NextClassify == ClientDetect \/ ServerDetect

SpecClassify == InitClassify /\ [][NextClassify]_vars

(***************************************************************************)
(* Properties of the classifier.                                           *)
(***************************************************************************)
Classified == detected.impl # "none" /\ detected.status = 200

\* the keyword table of the variant that produced the result
KeywordsOf(i) ==
  IF detected.impl = "client" THEN algorithmPatterns[i].keywords ELSE categories[i].keywords

\* the text the variant looks its keywords up in
NormalizedCode == ToLowerCase(code)

MaxOf(scores) == CHOOSE m \in Range(scores) : \A i \in DOMAIN scores : scores[i] <= m

\* C1: a text on which every category scores zero is classified 'unknown'
\* with confidence exactly 0.1 (1 tenth), by the client and by the server
\* classifier.
C1_ZeroScoreUnknownTenth ==
  (Classified /\ \A i \in DOMAIN detected.scores : detected.scores[i] = 0)
    => (detected.type = "unknown" /\ detected.confidence = 1)

\* C2 as stated: a text with at least one sorting keyword and no keyword of
\* any other category is classified 'sorting' with confidence > 0.
C2_SortingKeywordsOnly ==
  (Classified
     /\ KeywordHits(KeywordsOf(1), NormalizedCode) >= 1
     /\ \A i \in DOMAIN detected.scores :
          i # 1 => KeywordHits(KeywordsOf(i), NormalizedCode) = 0)
    => (detected.type = "sorting" /\ detected.confidence > 0)

\* C2 amended: a text with at least one sorting keyword in which no keyword
\* and no pattern of any other category matches (every other category
\* scores zero) is classified 'sorting' with confidence > 0.
C2_SortingOnlyScores ==
  (Classified
     /\ KeywordHits(KeywordsOf(1), NormalizedCode) >= 1
     /\ \A i \in DOMAIN detected.scores : i # 1 => detected.scores[i] = 0)
    => (detected.type = "sorting" /\ detected.confidence > 0)

C2_Witness ==
  /\ Classified
  /\ detected.impl = "client"
  /\ KeywordHits(KeywordsOf(1), NormalizedCode) >= 1
  /\ \A i \in DOMAIN detected.scores : i # 1 => detected.scores[i] = 0
  /\ detected.type = "sorting"

\* C3: the result is the category with the highest score; among categories
\* that tie for the highest non-zero score the first declared one wins, a
\* later one replacing the winner only with a strictly greater score.
C3_FirstHighestWins ==
  Classified =>
    LET scores == detected.scores
        m == MaxOf(scores)
    IN IF m = 0 THEN detected.type = "unknown"
       ELSE \E i \in DOMAIN scores :
              /\ detected.type = detected.types[i]
              /\ scores[i] = m
              /\ \A j \in DOMAIN scores : j < i => scores[j] < m

C3_Witness ==
  /\ Classified
  /\ \E i, j \in DOMAIN detected.scores :
       /\ i < j
       /\ detected.scores[i] = detected.scores[j]
       /\ detected.scores[i] = MaxOf(detected.scores)
       /\ detected.scores[i] > 0
       /\ detected.type = detected.types[i]

Null == [kind |-> "null"]

\* the field of a destructured value, undefined when it has none
FieldOf(v, name) ==
  IF v.kind = "object" /\ name \in DOMAIN v.fields THEN v.fields[name] ELSE Undefined

\* x === t and x < t for a number x and a JavaScript value t
StrictEq(x, t) == t.kind = "number" /\ t.value = x
LessThan(x, t) == t.kind = "number" /\ x < t.value

\* code.split('\n').filter(line => line.trim())
NonBlankLines(text) == SelectSeq(Split(text, "\n"), LAMBDA l : Trim(l) # <<>>)

\* extractArrayFromCode(lines): the literal of the first line that has one
RECURSIVE ServerExtractArrayFromCode(_)
ServerExtractArrayFromCode(lines) ==
  IF Len(lines) = 0 THEN Null
  ELSE Bind(MatchGroup(Lit(<<"[">>), ArrayLiteralGroup, Lit(<<"]">>), Head(lines)), LAMBDA m :
         IF m[1] THEN Arr(NumbersOfMatch(m))
         ELSE ServerExtractArrayFromCode(Tail(lines)))

DefaultSearchData ==
  Obj([array |-> Arr(<<1, 3, 5, 7, 9, 11, 13, 15>>), target |-> Num(7)])

\* Math.floor((left + right) / 2) rounded up instead
MidIndexCeil(left, right) == (left + right + 1) \div 2

\* Math.floor((left + right) / 2)
MidIndex(left, right) == (left + right) \div 2

\* the loop of generateSearchingTraceSteps runs while stepCount < 5
StepCountLimit == 5

\* the while loop of generateSearchingTraceSteps; array is 0-indexed in the
\* code and 1-indexed here, left, right and mid keep the code's values
RECURSIVE ServerSearchLoop(_, _, _)
ServerSearchLoop(array, target, st) ==
  IF st.left <= st.right /\ ~st.found /\ st.stepCount < StepCountLimit
    THEN LET mid == MidIndex(st.left, st.right)
             calc == [action |-> "CALCULATE_MID", lineNumber |-> st.stepCount,
                      left |-> st.left, right |-> st.right, mid |-> mid,
                      data |-> array, target |-> target]
         IN IF StrictEq(array[mid + 1], target)
              THEN [st EXCEPT !.found = TRUE, !.foundIndex = mid,
                      !.steps = st.steps \o <<calc,
                         [action |-> "FOUND", lineNumber |-> st.stepCount + 1,
                          data |-> array, target |-> target,
                          found |-> TRUE, foundIndex |-> mid]>>]
            ELSE IF LessThan(array[mid + 1], target)
              THEN ServerSearchLoop(array, target,
                     [st EXCEPT !.left = mid + 1, !.stepCount = @ + 1,
                        !.steps = st.steps \o <<calc,
                           [action |-> "SEARCH_RIGHT", lineNumber |-> st.stepCount + 1,
                            left |-> mid + 1, right |-> st.right,
                            data |-> array, target |-> target]>>])
            ELSE ServerSearchLoop(array, target,
                     [st EXCEPT !.right = mid - 1, !.stepCount = @ + 1,
                        !.steps = st.steps \o <<calc,
                           [action |-> "SEARCH_LEFT", lineNumber |-> st.stepCount + 1,
                            left |-> st.left, right |-> mid - 1,
                            data |-> array, target |-> target]>>])
    ELSE st

\* generateSearchingTraceSteps(lines, input): the steps, or Threw when the
\* input has no iterable array
GenerateSearchingTraceSteps(lines, input) ==
  Bind(OrElse(input, DefaultSearchData), LAMBDA searchData :
  Bind(FieldOf(searchData, "array"), LAMBDA array :
  Bind(FieldOf(searchData, "target"), LAMBDA target :
    IF array.kind # "array" THEN Threw
    ELSE Bind(array.elems, LAMBDA arr :
         Bind([action |-> "INIT", lineNumber |-> 0,
               left |-> 0, right |-> Len(arr) - 1,
               data |-> arr, target |-> target], LAMBDA init :
         Bind(ServerSearchLoop(arr, target,
                [left |-> 0, right |-> Len(arr) - 1, found |-> FALSE,
                 foundIndex |-> -1, stepCount |-> 1, steps |-> <<init>>]), LAMBDA final :
           [threw |-> FALSE, steps |-> final.steps,
            locals |-> [left |-> final.left, right |-> final.right, found |-> final.found,
                        foundIndex |-> final.foundIndex, array |-> arr,
                        target |-> target, stepCount |-> final.stepCount]]))))))

(***************************************************************************)
(* Server sorting trace (generateSortingTraceSteps).                       *)
(***************************************************************************)
DefaultSortArray == <<19, 7, 15, 12, 16, 18, 4, 11, 13>>

\* analyzePivotStrategy(lines)
AnalyzePivotStrategy(lines) ==
  LET codeText == ToLowerCase(Join(lines, <<" ">>))
  IN IF Includes(codeText, <<"m","a","t","h",".","f","l","o","o","r">>) /\ Includes(codeText, <<"l","e","n","g","t","h"," ","/"," ","2">>)
       THEN "middle"
     ELSE IF Includes(codeText, <<"[","0","]">>) THEN "first"
     ELSE "last"

\* findLineWithPattern(lines, pattern) || fallback: the 0-based index of the
\* first matching line; index 0 and no match both give the fallback
FindLineOr(lines, pattern, fallback) ==
  Bind({i \in 1..Len(lines) : Exec(pattern, lines[i])}, LAMBDA hits :
    IF hits = {} THEN fallback
    ELSE Bind((CHOOSE i \in hits : \A j \in hits : i <= j) - 1, LAMBDA first :
           IF first = 0 THEN fallback ELSE first))

\* array.filter(x => x < pivot) and array.filter(x => x > pivot); a
\* comparison with undefined is false
RealPartitionInclusive(array, pivot) ==
  [left |-> SelectSeq(array, LAMBDA x : pivot.kind = "number" /\ x <= pivot.value),
   right |-> SelectSeq(array, LAMBDA x : pivot.kind = "number" /\ x > pivot.value)]

RealPartition(array, pivot) ==
  [left |-> SelectSeq(array, LAMBDA x : pivot.kind = "number" /\ x < pivot.value),
   right |-> SelectSeq(array, LAMBDA x : pivot.kind = "number" /\ x > pivot.value)]

\* Array.prototype.sort((a, b) => a - b)
RECURSIVE InsertAsc(_, _)
InsertAsc(x, s) ==
  IF Len(s) = 0 THEN <<x>>
  ELSE IF x <= Head(s) THEN <<x>> \o s
  ELSE <<Head(s)>> \o InsertAsc(x, Tail(s))

RECURSIVE SortAsc(_)
SortAsc(s) == IF Len(s) = 0 THEN <<>> ELSE InsertAsc(Head(s), SortAsc(Tail(s)))

\* a step field holds either its own copy of an array or the array object
\* itself, which later statements of the generator can still change
Copy(a) == [ref |-> "copy", val |-> a]
Alias(name) == [ref |-> name, val |-> <<>>]

BoxAll(a) == [i \in 1..Len(a) |-> Num(a[i])]

\* generateSortingTraceSteps(lines, input).  heap holds the arrays left and
\* right as they are when the function returns (sorted in place by the
\* statement that builds sortedArray).
GenerateSortingTraceSteps(lines, input) ==
  Bind(OrElse(OrElse(ServerExtractArrayFromCode(lines), input), Arr(DefaultSortArray)), LAMBDA array :
    IF array.kind # "array" THEN Threw
    ELSE
      Bind(array.elems, LAMBDA arr :
      Bind(Len(arr), LAMBDA n :
      Bind(AnalyzePivotStrategy(lines), LAMBDA pivotStrategy :
      Bind(IF pivotStrategy = "middle" THEN n \div 2 ELSE n - 1, LAMBDA pivotIndex :
      Bind(IF pivotIndex >= 0 /\ pivotIndex < n
             THEN Num(arr[pivotIndex + 1]) ELSE Undefined, LAMBDA pivotValue :
      Bind(RealPartition(arr, pivotValue), LAMBDA part :
      Bind(part.left, LAMBDA left :
      Bind(part.right, LAMBDA right :
      Bind(SortAsc(left), LAMBDA sortedLeft :
      Bind(SortAsc(right), LAMBDA sortedRight :
        LET initStep == [action |-> "INIT_ARRAY", lineNumber |-> 0, data |-> Copy(arr)]
            pivotStep == [action |-> "CHOOSE_PIVOT",
                          lineNumber |-> FindLineOr(lines, Re(Lit(<<"p","i","v","o","t">>)), 1),
                          data |-> Copy(arr), pivot |-> pivotValue,
                          pivotIndex |-> pivotIndex, strategy |-> pivotStrategy]
            partStep == [action |-> "PARTITION",
                         lineNumber |-> FindLineOr(lines, Re(AltLit(<<<<"f","o","r">>, <<"w","h","i","l","e">>>>)), 2),
                         data |-> Copy(arr), pivot |-> pivotValue,
                         left |-> Alias("left"), right |-> Alias("right"),
                         describedLeft |-> left, describedRight |-> right,
                         dsLeft |-> 0, dsRight |-> Len(left), dsPivot |-> Len(left)]
            leftStep == [action |-> "RECURSIVE_LEFT",
                         lineNumber |-> FindLineOr(lines,
                            Re(Cat(<<Lit(<<"q","u","i","c","k","s","o","r","t">>), Star(AnyChar), Lit(<<"l","e","f","t">>)>>)), 3),
                         data |-> Alias("left"), describedLeft |-> left,
                         highlight |-> <<0, Len(left) - 1>>]
            rightStep == [action |-> "RECURSIVE_RIGHT",
                          lineNumber |-> FindLineOr(lines,
                             Re(Cat(<<Lit(<<"q","u","i","c","k","s","o","r","t">>), Star(AnyChar), Lit(<<"r","i","g","h","t">>)>>)), 4),
                          data |-> Alias("right"), describedRight |-> right,
                          highlight |-> <<0, Len(right) - 1>>]
            sortedArray == BoxAll(sortedLeft) \o <<pivotValue>> \o BoxAll(sortedRight)
            finalStep == [action |-> "COMPLETE", lineNumber |-> Len(lines) - 1,
                          data |-> sortedArray]
        IN [threw |-> FALSE,
            steps |-> <<initStep, pivotStep, partStep>>
                        \o (IF Len(left) > 1 THEN <<leftStep>> ELSE <<>>)
                        \o (IF Len(right) > 1 THEN <<rightStep>> ELSE <<>>)
                        \o <<finalStep>>,
            heap |-> [left |-> sortedLeft, right |-> sortedRight],
            locals |-> [array |-> arr, pivotValue |-> pivotValue,
                        pivotIndex |-> pivotIndex]])))))))))))

(***************************************************************************)
(* Server queue trace (generateQueueTraceSteps) and generic trace.         *)
(***************************************************************************)
DefaultOperations ==
  <<[type |-> "enqueue", value |-> Num(10)], [type |-> "enqueue", value |-> Num(20)],
    [type |-> "dequeue", value |-> Undefined], [type |-> "enqueue", value |-> Num(30)]>>

\* queue.pop() in the place of queue.shift()
ShiftFromRear(queue) == IF Len(queue) = 0 THEN queue ELSE SubSeq(queue, 1, Len(queue) - 1)

\* queue.shift(): the queue without its front element (empty stays empty)
Shift(queue) == IF Len(queue) = 0 THEN queue ELSE Tail(queue)

\* what queue.shift() returns
Shifted(queue) == IF Len(queue) = 0 THEN Undefined ELSE Num(Head(queue))

\* operations.forEach of generateQueueTraceSteps, from operation index on
RECURSIVE ServerQueueLoop(_, _, _, _)
ServerQueueLoop(operations, index, queue, steps) ==
  IF index >= Len(operations) THEN [queue |-> queue, steps |-> steps]
  ELSE LET operation == operations[index + 1]
       IN IF operation.type = "enqueue" /\ Truthy(operation.value)
            THEN LET q == Append(queue, operation.value.value)
                 IN ServerQueueLoop(operations, index + 1, q,
                      Append(steps, [action |-> "ENQUEUE", lineNumber |-> index + 1,
                                     value |-> operation.value, data |-> q,
                                     highlight |-> <<Len(q) - 1>>]))
          ELSE IF operation.type = "dequeue"
            THEN LET q == Shift(queue)
                 IN ServerQueueLoop(operations, index + 1, q,
                      Append(steps, [action |-> "DEQUEUE", lineNumber |-> index + 1,
                                     value |-> Shifted(queue), data |-> q,
                                     highlight |-> <<0>>]))
          ELSE ServerQueueLoop(operations, index + 1, queue, steps)

\* generateQueueTraceSteps(lines, input): neither argument is read
GenerateQueueTraceSteps(lines, input) ==
  Bind(ServerQueueLoop(DefaultOperations, 0, <<>>,
         <<[action |-> "INIT", lineNumber |-> 0, data |-> <<>>]>>), LAMBDA final :
    [threw |-> FALSE, steps |-> final.steps,
     locals |-> [queue |-> final.queue, operations |-> DefaultOperations]])

\* generateGenericTraceSteps(lines, input)
GenerateGenericTraceSteps(lines, input) ==
  LET kept == {i \in 1..Len(lines) : Trim(lines[i]) # <<>>}
      Nth(k) == CHOOSE i \in kept : Cardinality({j \in kept : j < i}) = k - 1
  IN [threw |-> FALSE,
      steps |-> [k \in 1..Cardinality(kept) |->
                   [action |-> "EXECUTE", lineNumber |-> Nth(k) - 1,
                    lineContent |-> lines[Nth(k)], variables |-> <<>>,
                    dataStructures |-> <<>>]]]

(***************************************************************************)
(* generateTraceSteps, generateEnhancedExecution and the execute route.    *)
(***************************************************************************)
GenerateTraceSteps(text, algorithmType, input) ==
  LET lines == NonBlankLines(text)
  IN IF algorithmType = "sorting" THEN GenerateSortingTraceSteps(lines, input)
     ELSE IF algorithmType = "searching" THEN GenerateSearchingTraceSteps(lines, input)
     ELSE IF algorithmType = "queue" THEN GenerateQueueTraceSteps(lines, input)
     ELSE GenerateGenericTraceSteps(lines, input)

\* generateEnhancedExecution(code, language, input); an exception of the
\* generator is rethrown
GenerateEnhancedExecution(text, language, input) ==
  Bind(ServerDetectAlgorithmType(ToLowerCase(text)), LAMBDA algorithmType :
  Bind(GenerateTraceSteps(text, algorithmType.type, input), LAMBDA traceSteps :
    IF traceSteps.threw THEN Threw
    ELSE [threw |-> FALSE, success |-> TRUE, algorithmType |-> algorithmType.type,
          language |-> language, steps |-> traceSteps.steps, finalState |-> Null,
          operations |-> Len(traceSteps.steps), trace |-> traceSteps]))

\* POST /api/execute: 400 without code or language, 500 when the generation
\* raised, else the execution result
ExecuteRoute(text, language, input) ==
  IF text = <<>> \/ language = ""
    THEN [impl |-> "server", status |-> 400, raised |-> FALSE]
  ELSE Bind(GenerateEnhancedExecution(text, language, input), LAMBDA execution :
         IF execution.threw
           THEN [impl |-> "server", status |-> 500, raised |-> TRUE]
           ELSE [impl |-> "server", status |-> 200, raised |-> FALSE,
                 body |-> execution])

(***************************************************************************)
(* Client tracer (class CodeTracer).  A tracer is the record of its        *)
(* fields steps, currentLine and dataStructures; the field variables is    *)
(* never written and stays empty.                                          *)
(***************************************************************************)
NewTracer == [steps |-> <<>>, currentLine |-> 0, dataStructures |-> <<>>]

\* addStep(lineNumber, lineContent, description, action): the step takes
\* the data-structure states that the map holds at this moment
AddStep(tr, lineNumber, lineContent, description, action) ==
  [tr EXCEPT !.steps = Append(@, [lineNumber |-> lineNumber, lineContent |-> lineContent,
                                  description |-> description, action |-> action,
                                  variables |-> <<>>,
                                  dataStructures |-> tr.dataStructures])]

\* this.currentLine++
NextLine(tr) == [tr EXCEPT !.currentLine = @ + 1]

\* this.dataStructures.set(key, state)
SetDataStructure(tr, key, state) ==
  LET entry == Merge(state, [key |-> key])
  IN IF \E i \in 1..Len(tr.dataStructures) : tr.dataStructures[i].key = key
       THEN [tr EXCEPT !.dataStructures =
               [i \in 1..Len(@) |-> IF @[i].key = key THEN entry ELSE @[i]]]
       ELSE [tr EXCEPT !.dataStructures = Append(@, entry)]

\* updateDataStructure(name, data, metadata): {...existing, data: [...data], ...metadata}
UpdateDataStructure(tr, name, data, metadata) ==
  IF \E i \in 1..Len(tr.dataStructures) : tr.dataStructures[i].key = name
    THEN Bind(tr.dataStructures[CHOOSE i \in 1..Len(tr.dataStructures) :
                                  tr.dataStructures[i].key = name], LAMBDA existing :
           SetDataStructure(tr, name, Merge(metadata, Merge([data |-> data], existing))))
    ELSE tr

\* CodeTracer.detectAlgorithmType()
TracerDetectAlgorithmType(text) ==
  LET codeNormalized == ToLowerCase(text)
      Has(k) == Includes(codeNormalized, k)
  IN IF Has(<<"q","u","i","c","k","s","o","r","t">>) \/ Has(<<"p","a","r","t","i","t","i","o","n">>) \/ (Has(<<"s","o","r","t">>) /\ Has(<<"p","i","v","o","t">>))
       THEN "sorting"
     ELSE IF Has(<<"q","u","e","u","e">>) \/ Has(<<"e","n","q","u","e","u","e">>) \/ Has(<<"d","e","q","u","e","u","e">>) THEN "queue"
     ELSE IF Has(<<"s","t","a","c","k">>) \/ Has(<<"p","u","s","h">>) \/ Has(<<"p","o","p">>) THEN "stack"
     ELSE IF Has(<<"b","i","n","a","r","y"," ","s","e","a","r","c","h">>) \/ Has(<<"s","e","a","r","c","h">>) THEN "searching"
     ELSE IF Has(<<"t","r","e","e">>) \/ Has(<<"n","o","d","e">>) THEN "tree"
     ELSE IF Has(<<"g","r","a","p","h">>) \/ Has(<<"d","f","s">>) \/ Has(<<"b","f","s">>) THEN "graph"
     ELSE "generic"

\* extractArrayFromCode(): the first literal of the whole text, or null
ClientExtractArrayFromCode(text) ==
  Bind(MatchGroup(Lit(<<"[">>), ArrayLiteralGroup, Lit(<<"]">>), text), LAMBDA m :
    IF m[1] THEN Arr(NumbersOfMatch(m)) ELSE Null)

\* extractTargetFromCode(): /target\s*=\s*(\d+)|find\s*\(\s*(\d+)\s*\)/,
\* the leftmost match of either alternative, or null
ExtractTargetFromCode(text) ==
  Bind(MatchGroup(Cat(<<Lit(<<"t","a","r","g","e","t">>), Star(SpaceClass), Lit(<<"=">>), Star(SpaceClass)>>),
                  Plus(DigitClass), Lit(<<>>), text), LAMBDA m1 :
  Bind(MatchGroup(Cat(<<Lit(<<"f","i","n","d">>), Star(SpaceClass), Lit(<<"(">>), Star(SpaceClass)>>),
                  Plus(DigitClass), Cat(<<Star(SpaceClass), Lit(<<")">>)>>), text), LAMBDA m2 :
    IF m1[1] /\ (~m2[1] \/ m1[3] < m2[3]) THEN Num(ParseInt(m1[2]))
    ELSE IF m2[1] THEN Num(ParseInt(m2[2]))
    ELSE Null))

(***************************************************************************)
(* Client searching trace.                                                 *)
(***************************************************************************)
\* the while loop of binarySearchTrace
RECURSIVE ClientSearchLoop(_, _, _)
ClientSearchLoop(arr, target, st) ==
  IF st.left <= st.right /\ ~st.found
    THEN Bind(MidIndex(st.left, st.right), LAMBDA mid :
         Bind(NextLine(AddStep(st.tr, st.tr.currentLine,
                               [text |-> "mid", left |-> st.left, right |-> st.right, mid |-> mid],
                               [text |-> "Calculate middle index", mid |-> mid],
                               "CALCULATE_MID")), LAMBDA t1 :
         Bind(UpdateDataStructure(t1, "array", arr,
                [left |-> st.left, right |-> st.right, current |-> mid,
                 highlight |-> <<mid>>]), LAMBDA t2 :
           IF arr[mid + 1] = target
             THEN ClientSearchLoop(arr, target,
                    [st EXCEPT !.found = TRUE, !.foundIndex = mid,
                       !.tr = NextLine(AddStep(t2, t2.currentLine,
                                 [text |-> "==", mid |-> mid, target |-> target],
                                 [text |-> "Found target", target |-> target, index |-> mid],
                                 "FOUND"))])
           ELSE IF arr[mid + 1] < target
             THEN ClientSearchLoop(arr, target,
                    [st EXCEPT !.left = mid + 1,
                       !.tr = NextLine(AddStep(t2, t2.currentLine,
                                 [text |-> "<", mid |-> mid, target |-> target],
                                 [text |-> "search right half", value |-> arr[mid + 1],
                                  target |-> target],
                                 "SEARCH_RIGHT"))])
           ELSE ClientSearchLoop(arr, target,
                    [st EXCEPT !.right = mid - 1,
                       !.tr = NextLine(AddStep(t2, t2.currentLine,
                                 [text |-> ">", mid |-> mid, target |-> target],
                                 [text |-> "search left half", value |-> arr[mid + 1],
                                  target |-> target],
                                 "SEARCH_LEFT"))]))))
    ELSE st

\* binarySearchTrace(arr, target)
BinarySearchTrace(tr, arr, target) ==
  Bind(AddStep(tr, 0, [text |-> "binarySearch", target |-> target],
               [text |-> "Binary Search", target |-> target, arr |-> arr], "INIT"), LAMBDA t0 :
  Bind(ClientSearchLoop(arr, target,
         [left |-> 0, right |-> Len(arr) - 1, found |-> FALSE,
          foundIndex |-> -1, tr |-> t0]), LAMBDA final :
    [success |-> TRUE, algorithmType |-> "searching", steps |-> final.tr.steps,
     finalState |-> [found |-> final.found, index |-> final.foundIndex],
     operations |-> Len(final.tr.steps), tracer |-> final.tr,
     locals |-> [left |-> final.left, right |-> final.right, found |-> final.found,
                 foundIndex |-> final.foundIndex, array |-> arr, target |-> target]]))

\* traceSearchingAlgorithm()
TraceSearchingAlgorithm(tr, text) ==
  Bind(OrElse(ClientExtractArrayFromCode(text), Arr(<<1, 3, 5, 7, 9, 11, 13, 15>>)), LAMBDA inputArray :
  Bind(OrElse(ExtractTargetFromCode(text), Num(7)), LAMBDA target :
  Bind(SetDataStructure(tr, "array",
         [type |-> "array", name |-> "searchArray", data |-> inputArray.elems]), LAMBDA t0 :
    BinarySearchTrace(t0, inputArray.elems, target.value))))

(***************************************************************************)
(* Client sorting trace (quicksortTrace, partitionTrace).  st is the       *)
(* tracer together with the array, which the code changes in place.        *)
(***************************************************************************)
\* [arr[a], arr[b]] = [arr[b], arr[a]] that writes arr[a] only
SwapFirstOnly(arr, a, b) == [arr EXCEPT ![a + 1] = arr[b + 1]]

\* [arr[a], arr[b]] = [arr[b], arr[a]]
Swap(arr, a, b) == [arr EXCEPT ![a + 1] = arr[b + 1], ![b + 1] = arr[a + 1]]

\* the for loop of partitionTrace, from index j on
RECURSIVE PartitionLoop(_, _, _, _, _)
PartitionLoop(st, high, pivot, i, j) ==
  IF j < high
    THEN Bind(NextLine(AddStep(st.tr, st.tr.currentLine,
                               [text |-> "if <=", j |-> j, pivot |-> pivot],
                               [text |-> "Comparing", j |-> j, value |-> st.arr[j + 1],
                                pivot |-> pivot],
                               "COMPARE")), LAMBDA t1 :
           IF st.arr[j + 1] <= pivot
             THEN Bind(Swap(st.arr, i + 1, j), LAMBDA swapped :
                  Bind(NextLine(AddStep(t1, t1.currentLine,
                                        [text |-> "swap", i |-> i + 1, j |-> j],
                                        [text |-> "Swapping", a |-> swapped[j + 1],
                                         b |-> swapped[i + 2]],
                                        "SWAP")), LAMBDA t2 :
                  Bind(UpdateDataStructure(t2, "array", swapped,
                                           [highlight |-> <<i + 1, j>>]), LAMBDA t3 :
                    PartitionLoop([tr |-> t3, arr |-> swapped], high, pivot, i + 1, j + 1))))
           ELSE PartitionLoop([tr |-> t1, arr |-> st.arr], high, pivot, i, j + 1))
    ELSE [tr |-> st.tr, arr |-> Swap(st.arr, i + 1, high), pivotIndex |-> i + 1]

\* partitionTrace(arr, low, high, pivot)
PartitionTrace(st, low, high, pivot) == PartitionLoop(st, high, pivot, low - 1, low)

\* quicksortTrace(arr, low, high, context)
RECURSIVE QuicksortTrace(_, _, _)
QuicksortTrace(st, low, high) ==
  IF low < high
    THEN Bind(high, LAMBDA pivotIndex :
         Bind(st.arr[pivotIndex + 1], LAMBDA pivotValue :
         Bind(NextLine(AddStep(st.tr, st.tr.currentLine,
                               [text |-> "pivot", pivotIndex |-> pivotIndex,
                                pivotValue |-> pivotValue],
                               [text |-> "Choose Pivot", step |-> Len(st.tr.steps) \div 3,
                                pivotValue |-> pivotValue],
                               "CHOOSE_PIVOT")), LAMBDA t1 :
         Bind(UpdateDataStructure(t1, "array", st.arr, [pivot |-> pivotIndex]), LAMBDA t2 :
         Bind(PartitionTrace([tr |-> t2, arr |-> st.arr], low, high, pivotValue), LAMBDA p :
         Bind(p.pivotIndex, LAMBDA pi :
         Bind(SubSeq(p.arr, low + 1, pi), LAMBDA left :
         Bind(SubSeq(p.arr, pi + 2, high + 1), LAMBDA right :
         Bind(NextLine(AddStep(p.tr, p.tr.currentLine,
                               [text |-> "partition", low |-> low, high |-> high],
                               [text |-> "Partition", left |-> left,
                                pivotValue |-> pivotValue, right |-> right],
                               "PARTITION")), LAMBDA t3 :
         Bind(QuicksortTrace([tr |-> t3, arr |-> p.arr], low, pi - 1), LAMBDA sortedLeft :
           QuicksortTrace([tr |-> sortedLeft.tr, arr |-> sortedLeft.arr], pi + 1, high)))))))))))
    ELSE [tr |-> st.tr, arr |-> st.arr]

\* traceSortingAlgorithm()
TraceSortingAlgorithm(tr, text) ==
  Bind(OrElse(ClientExtractArrayFromCode(text), Arr(DefaultSortArray)).elems, LAMBDA inputArray :
  Bind(SetDataStructure(tr, "array",
         [type |-> "array", name |-> "array", data |-> inputArray,
          metadata |-> [size |-> Len(inputArray)]]), LAMBDA t0 :
  Bind(AddStep(t0, 1, [text |-> "let array"],
               [text |-> "Initial Array", arr |-> inputArray], "INIT_ARRAY"), LAMBDA t1 :
  Bind(QuicksortTrace([tr |-> t1, arr |-> inputArray], 0, Len(inputArray) - 1), LAMBDA final :
    [success |-> TRUE, algorithmType |-> "sorting", steps |-> final.tr.steps,
     finalState |-> final.arr, operations |-> Len(final.tr.steps), tracer |-> final.tr,
     locals |-> [inputArray |-> inputArray]]))))

(***************************************************************************)
(* Client queue trace.                                                     *)
(***************************************************************************)
\* extractQueueOperations(): one operation per line that names one
RECURSIVE QueueOperationsOf(_)
QueueOperationsOf(lines) ==
  IF Len(lines) = 0 THEN <<>>
  ELSE Bind(Head(lines), LAMBDA line :
       Bind(MatchGroup(Cat(<<Lit(<<"e","n","q","u","e","u","e">>), Star(SpaceClass), Lit(<<"(">>),
                             Star(SpaceClass)>>),
                       Plus(DigitClass),
                       Cat(<<Star(SpaceClass), Lit(<<")">>)>>), line), LAMBDA valueMatch :
         (IF Includes(line, <<"e","n","q","u","e","u","e">>)
            THEN (IF valueMatch[1]
                    THEN <<[type |-> "enqueue", value |-> Num(ParseInt(valueMatch[2]))]>>
                    ELSE <<>>)
          ELSE IF Includes(line, <<"d","e","q","u","e","u","e">>)
            THEN <<[type |-> "dequeue", value |-> Undefined]>>
          ELSE <<>>)
           \o QueueOperationsOf(Tail(lines))))

ExtractQueueOperations(text) ==
  Bind(QueueOperationsOf(Split(text, "\n")), LAMBDA operations :
    IF Len(operations) > 0 THEN operations ELSE DefaultOperations)

\* the for loop of traceQueueAlgorithm, from operation k on
RECURSIVE ClientQueueLoop(_, _, _)
ClientQueueLoop(operations, k, st) ==
  IF k > Len(operations) THEN st
  ELSE Bind(operations[k], LAMBDA operation :
         IF operation.type = "enqueue" /\ operation.value.kind # "undefined"
           THEN Bind(Append(st.queue, operation.value.value), LAMBDA q :
                Bind(NextLine(AddStep(st.tr, st.tr.currentLine,
                                      [text |-> "queue.enqueue", value |-> operation.value],
                                      [text |-> "Enqueue", value |-> operation.value],
                                      "ENQUEUE")), LAMBDA t1 :
                Bind(UpdateDataStructure(t1, "queue", q, [highlight |-> <<Len(q) - 1>>]), LAMBDA t2 :
                  ClientQueueLoop(operations, k + 1, [tr |-> t2, queue |-> q]))))
         ELSE IF operation.type = "dequeue"
           THEN Bind(Shift(st.queue), LAMBDA q :
                Bind(NextLine(AddStep(st.tr, st.tr.currentLine,
                                      [text |-> "queue.dequeue"],
                                      [text |-> "Dequeue", value |-> Shifted(st.queue)],
                                      "DEQUEUE")), LAMBDA t1 :
                Bind(UpdateDataStructure(t1, "queue", q, [highlight |-> <<0>>]), LAMBDA t2 :
                  ClientQueueLoop(operations, k + 1, [tr |-> t2, queue |-> q]))))
         ELSE ClientQueueLoop(operations, k + 1, st))

\* traceQueueAlgorithm()
TraceQueueAlgorithm(tr, text) ==
  Bind(SetDataStructure(tr, "queue",
         [type |-> "queue", name |-> "queue", data |-> <<>>,
          metadata |-> [front |-> 0, rear |-> 0]]), LAMBDA t0 :
  Bind(ExtractQueueOperations(text), LAMBDA operations :
  Bind(ClientQueueLoop(operations, 1, [tr |-> t0, queue |-> <<>>]), LAMBDA final :
    [success |-> TRUE, algorithmType |-> "queue", steps |-> final.tr.steps,
     finalState |-> final.queue, operations |-> Len(operations), tracer |-> final.tr,
     locals |-> [operations |-> operations, queue |-> final.queue]])))

(***************************************************************************)
(* Client generic trace and CodeTracer.trace().                            *)
(***************************************************************************)
\* the generic trace visits at most this many lines
GenericLineLimit == 10

\* the for loop of traceGenericAlgorithm, from line index i on
RECURSIVE GenericLoop(_, _, _)
GenericLoop(tr, lines, i) ==
  IF i < Min(Len(lines), GenericLineLimit)
    THEN GenericLoop(AddStep(tr, i, lines[i + 1], [text |-> "Executing line", line |-> i + 1],
                             "EXECUTE"),
                     lines, i + 1)
    ELSE tr

\* traceGenericAlgorithm()
TraceGenericAlgorithm(tr, text) ==
  Bind(Split(text, "\n"), LAMBDA lines :
  Bind(GenericLoop(tr, lines, 0), LAMBDA final :
    [success |-> TRUE, algorithmType |-> "generic", steps |-> final.steps,
     finalState |-> Null, operations |-> Len(final.steps), tracer |-> final,
     locals |-> [lines |-> lines]]))

\* trace() of a tracer tr constructed for the text; no statement of the
\* generators can raise, so the catch branch is never taken
Trace(tr, text) ==
  Bind(Split(text, "\n"), LAMBDA lines :
  Bind(TracerDetectAlgorithmType(text), LAMBDA algorithmType :
  Bind(AddStep(tr, 0, lines[1], [text |-> "Program initialization"], "INIT"), LAMBDA t0 :
  Bind(CASE algorithmType = "sorting" -> TraceSortingAlgorithm(t0, text)
         [] algorithmType = "searching" -> TraceSearchingAlgorithm(t0, text)
         [] algorithmType = "queue" -> TraceQueueAlgorithm(t0, text)
         [] OTHER -> TraceGenericAlgorithm(t0, text), LAMBDA traced :
    Merge(traced, [impl |-> "client", raised |-> FALSE, detectedType |-> algorithmType])))))

(***************************************************************************)
(* Invocations of the two trace pipelines.                                 *)
(***************************************************************************)
\* POST /api/execute with the body {code, language, input}
ServerExecute ==
  /\ call.impl = "server"
  /\ result = NoResult
  /\ result' = ExecuteRoute(call.code, call.language, call.input)
  /\ UNCHANGED <<call, classifyVars, pageVars, storageVars>>

\* new CodeTracer(code, language).trace()
ClientTrace ==
  /\ call.impl = "client"
  /\ result = NoResult
  /\ result' = Trace(NewTracer, call.code)
  /\ UNCHANGED <<call, classifyVars, pageVars, storageVars>>

NextTrace == ServerExecute \/ ClientTrace

ServerCall(text, input) ==
  [impl |-> "server", code |-> text, language |-> "javascript", input |-> input]
ClientCall(text) ==
  [impl |-> "client", code |-> text, language |-> "javascript", input |-> Undefined]

\* the text of an array literal: [a, b, c]
FormatArray(a) ==
  <<"[">> \o Join([i \in 1..Len(a) |-> FormatNat(a[i])], <<","," ">>) \o <<"]">>

(***************************************************************************)
(* Searching: the arrays and targets the binary search is run on.          *)
(***************************************************************************)
Odds(n) == [i \in 1..n |-> 2 * i - 1]

SmallArrays == UNION {[1..k -> 0..MaxSmallVal] : k \in 0..MaxSmallLen}

SearchInputs ==
  {<<Odds(n), t>> : n \in 1..MaxSearchLen, t \in 0..(2 * MaxSearchLen + 1)}
    \cup (SmallArrays \X (0..(MaxSmallVal + 1)))

\* a source text that the classifiers take for a search and that names the
\* array and the target
SearchSource(a, t) ==
  <<"s","e","a","r","c","h","(">> \o FormatArray(a) \o <<")","\n","t","a","r","g","e","t"," ","="," ">> \o FormatNat(t)

SearchCalls ==
  {ServerCall(<<"b","i","n","a","r","y"," ","s","e","a","r","c","h">>, Undefined), ClientCall(<<"b","i","n","a","r","y"," ","s","e","a","r","c","h">>)}
    \cup {ServerCall(<<"b","i","n","a","r","y"," ","s","e","a","r","c","h">>, Obj([array |-> Arr(in[1]), target |-> Num(in[2])])) :
            in \in SearchInputs}
    \cup {ClientCall(SearchSource(in[1], in[2])) : in \in SearchInputs}

InitSearch ==
  /\ call \in SearchCalls
  /\ result = NoResult
  /\ IdleClassify
  /\ IdlePage
  /\ IdleStorage

SpecSearch == InitSearch /\ [][NextTrace]_vars

(***************************************************************************)
(* Properties of the searching trace.                                      *)
(***************************************************************************)
\* the trace a finished invocation returned, with the generator's locals
Returned == result # NoResult /\ ~result.raised /\ (result.impl = "server" => result.status = 200)
TraceOf == IF result.impl = "server" THEN result.body.trace ELSE result
TypeOf == IF result.impl = "server" THEN result.body.algorithmType ELSE result.algorithmType
StepsOf == IF result.impl = "server" THEN result.body.steps ELSE result.steps

SearchReturned == Returned /\ TypeOf = "searching"
SearchArray == TraceOf.locals.array
SearchTarget ==
  IF result.impl = "server" THEN TraceOf.locals.target.value ELSE TraceOf.locals.target

StrictlyAscending(a) == \A i \in 1..(Len(a) - 1) : a[i] < a[i + 1]
Ascending(a) == \A i \in 1..(Len(a) - 1) : a[i] <= a[i + 1]

\* ceil(log2(n)) for n >= 1
CeilLog2(n) == CHOOSE k \in 0..n : 2^k >= n /\ \A j \in 0..(k - 1) : 2^j < n

Comparisons(steps) == Cardinality({i \in 1..Len(steps) : steps[i].action = "CALCULATE_MID"})

LastStep(steps) == steps[Len(steps)]

\* the index a FOUND step reports (server: metadata.foundIndex, client: the
\* index of its description)
ReportsFoundAt(step, index) ==
  /\ step.action = "FOUND"
  /\ IF result.impl = "server" THEN step.found /\ step.foundIndex = index
     ELSE step.description.index = index

\* a step that reports found = false with foundIndex = -1
ReportsNotFound(step) ==
  \/ /\ "found" \in DOMAIN step
     /\ step.found = FALSE /\ step.foundIndex = -1
  \/ /\ "description" \in DOMAIN step
     /\ "found" \in DOMAIN step.description
     /\ step.description.found = FALSE /\ step.description.index = -1

\* C5: on a sorted array of n >= 1 distinct integers that contains the
\* target, the searching trace has at most ceil(log2(n))+1 CALCULATE_MID
\* steps and its final step reports found = true at the target's position.
C5_FoundWithinLogComparisons ==
  (SearchReturned /\ Len(SearchArray) >= 1 /\ StrictlyAscending(SearchArray)
     /\ SearchTarget \in Range(SearchArray))
    => /\ Comparisons(StepsOf) <= CeilLog2(Len(SearchArray)) + 1
       /\ \E i \in 1..Len(SearchArray) :
            /\ SearchArray[i] = SearchTarget
            /\ ReportsFoundAt(LastStep(StepsOf), i - 1)

\* C6: on a sorted array that does not contain the target, the searching
\* trace stops with the bounds exhausted (left > right) and its final step
\* reports found = false and foundIndex = -1.
C6_NotFoundFinalStep ==
  (SearchReturned /\ Ascending(SearchArray) /\ SearchTarget \notin Range(SearchArray))
    => /\ TraceOf.locals.left > TraceOf.locals.right
       /\ ReportsNotFound(LastStep(StepsOf))

(***************************************************************************)
(* Sorting: the source texts and inputs the sorting traces are run on.     *)
(***************************************************************************)
\* the line that tells the pivot strategy: last, middle or first element
PivotLines ==
  {<<"p","i","v","o","t"," ","="," ","a","r","r","[","a","r","r",".","l","e","n","g","t","h"," ","-"," ","1","]">>,
   <<"p","i","v","o","t"," ","="," ","a","r","r","[","M","a","t","h",".","f","l","o","o","r","(","a","r","r",".","l","e","n","g","t","h"," ","/"," ","2",")","]">>,
   <<"p","i","v","o","t"," ","="," ","a","r","r","[","0","]">>}

\* a quicksort source that passes the literal a, or the variable arr
SortSourceOf(a, pivotLine) == <<"q","u","i","c","k","S","o","r","t","(">> \o FormatArray(a) \o <<")","\n">> \o pivotLine
SortSourceArr(pivotLine) == <<"q","u","i","c","k","S","o","r","t","(","a","r","r",")","\n">> \o pivotLine

SortCalls ==
  {ServerCall(SortSourceOf(a, p), Undefined) : a \in SmallArrays \ {<<>>}, p \in PivotLines}
    \cup {ServerCall(SortSourceArr(p), Arr(a)) : a \in SmallArrays, p \in PivotLines}
    \cup {ServerCall(SortSourceArr(p), Undefined) : p \in PivotLines}
    \cup {ClientCall(SortSourceOf(a, p)) : a \in SmallArrays \ {<<>>}, p \in PivotLines}
    \cup {ClientCall(SortSourceArr(p)) : p \in PivotLines}

InitSort ==
  /\ call \in SortCalls
  /\ result = NoResult
  /\ IdleClassify
  /\ IdlePage
  /\ IdleStorage

SpecSort == InitSort /\ [][NextTrace]_vars

(***************************************************************************)
(* Properties of the server sorting trace.                                 *)
(***************************************************************************)
ServerSortReturned == Returned /\ result.impl = "server" /\ TypeOf = "sorting"

\* the array a step field shows once the generator has returned
Shown(field) == IF field.ref = "copy" THEN field.val ELSE TraceOf.heap[field.ref]

Count(s, v) == Cardinality({i \in 1..Len(s) : s[i] = v})

\* s holds exactly the elements x of a with keep(x), each as often as a does
HoldsExactly(s, a, keep(_)) ==
  \A v \in Range(s) \cup Range(a) : Count(s, v) = (IF keep(v) THEN Count(a, v) ELSE 0)

StepWith(steps, action) == steps[CHOOSE i \in 1..Len(steps) : steps[i].action = action]

\* C7: for an input array with pivot value p, the PARTITION step's left
\* holds exactly the elements < p and its right exactly the elements > p,
\* and the COMPLETE step's array is left ascending, then p once, then right
\* ascending; the default array with the last-element strategy has p = 13.
C7_PartitionAndFinalArray ==
  (ServerSortReturned /\ TraceOf.locals.pivotValue.kind = "number")
    => LET arr == TraceOf.locals.array
           p == TraceOf.locals.pivotValue.value
           partition == StepWith(StepsOf, "PARTITION")
           complete == StepWith(StepsOf, "COMPLETE").data
           nLeft == Cardinality({i \in 1..Len(arr) : arr[i] < p})
           nRight == Cardinality({i \in 1..Len(arr) : arr[i] > p})
           sortedLeft == [i \in 1..nLeft |-> complete[i].value]
           sortedRight == [i \in 1..nRight |-> complete[nLeft + 1 + i].value]
       IN /\ HoldsExactly(Shown(partition.left), arr, LAMBDA x : x < p)
          /\ HoldsExactly(Shown(partition.right), arr, LAMBDA x : x > p)
          /\ partition.describedLeft = SelectSeq(arr, LAMBDA x : x < p)
          /\ partition.describedRight = SelectSeq(arr, LAMBDA x : x > p)
          /\ Len(complete) = nLeft + 1 + nRight
          /\ complete[nLeft + 1] = Num(p)
          /\ Ascending(sortedLeft) /\ HoldsExactly(sortedLeft, arr, LAMBDA x : x < p)
          /\ Ascending(sortedRight) /\ HoldsExactly(sortedRight, arr, LAMBDA x : x > p)
          /\ (arr = DefaultSortArray /\ StepWith(StepsOf, "CHOOSE_PIVOT").strategy = "last")
               => p = 13

C7_Witness ==
  /\ ServerSortReturned
  /\ TraceOf.locals.array = DefaultSortArray
  /\ StepWith(StepsOf, "CHOOSE_PIVOT").strategy = "last"
  /\ TraceOf.locals.pivotValue = Num(13)
  /\ StepWith(StepsOf, "PARTITION").describedLeft = <<7, 12, 4, 11>>
  /\ StepWith(StepsOf, "PARTITION").describedRight = <<19, 15, 16, 18>>
  /\ StepWith(StepsOf, "COMPLETE").data = BoxAll(<<4, 7, 11, 12, 13, 15, 16, 18, 19>>)

(***************************************************************************)
(* Queue: the source texts the queue traces are run on.  The server's      *)
(* classifier has no queue category, so generateQueueTraceSteps is called   *)
(* directly, as generateTraceSteps would call it.                          *)
(***************************************************************************)
MaxQueueLines == 4

QueueLines ==
  {<<"q",".","e","n","q","u","e","u","e","(","1",")">>, <<"q",".","e","n","q","u","e","u","e","(","2",")">>, <<"q",".","e","n","q","u","e","u","e","(","0",")">>, <<"q",".","d","e","q","u","e","u","e","(",")">>, <<"q",".","e","n","q","u","e","u","e","(","x",")">>}

RECURSIVE QueueTexts(_)
QueueTexts(n) ==
  IF n = 1 THEN QueueLines
  ELSE QueueTexts(n - 1) \cup {t \o <<"\n">> \o l : t \in QueueTexts(n - 1), l \in QueueLines}

GeneratorCall(text, input) ==
  [impl |-> "generator", code |-> text, language |-> "javascript", input |-> input]

\* generateQueueTraceSteps(lines, input) on the lines of the call's text
ServerQueue ==
  /\ call.impl = "generator"
  /\ result = NoResult
  /\ result' = Merge(GenerateQueueTraceSteps(NonBlankLines(call.code), call.input),
                     [impl |-> "generator", raised |-> FALSE, algorithmType |-> "queue"])
  /\ UNCHANGED <<call, classifyVars, pageVars, storageVars>>

QueueCalls ==
  {ClientCall(t) : t \in QueueTexts(MaxQueueLines)}
    \cup {GeneratorCall(t, Undefined) : t \in QueueLines}

InitQueue ==
  /\ call \in QueueCalls
  /\ result = NoResult
  /\ IdleClassify
  /\ IdlePage
  /\ IdleStorage

NextQueue == ClientTrace \/ ServerQueue

SpecQueue == InitQueue /\ [][NextQueue]_vars

(***************************************************************************)
(* Properties of the queue traces.                                         *)
(***************************************************************************)
QueueReturned == Returned /\ TypeOf = "queue"

\* a first-in first-out queue after the first k operations of ops
RECURSIVE Fifo(_, _)
Fifo(ops, k) ==
  IF k = 0 THEN <<>>
  ELSE LET q == Fifo(ops, k - 1)
       IN IF ops[k].type = "enqueue" THEN q \o <<ops[k].value.value>>
          ELSE IF q = <<>> THEN <<>>
          ELSE [i \in 1..(Len(q) - 1) |-> q[i + 1]]

\* C8: the queue generators replay their operation list first-in first-out:
\* the final queue is what a FIFO queue holds after the operations, a
\* dequeue on the empty queue changing nothing; the server's steps show the
\* queue after each operation, and the default operations end in [20, 30].
C8_QueueFifoReplay ==
  QueueReturned
    => LET ops == TraceOf.locals.operations
       IN /\ TraceOf.locals.queue = Fifo(ops, Len(ops))
          /\ result.impl = "client" => result.finalState = Fifo(ops, Len(ops))
          /\ result.impl = "generator"
               => /\ Len(StepsOf) = Len(ops) + 1
                  /\ \A k \in 0..Len(ops) : StepsOf[k + 1].data = Fifo(ops, k)
          /\ ops = DefaultOperations => TraceOf.locals.queue = <<20, 30>>

\* a replay that dequeued from the empty queue and went on to enqueue
C8_Witness ==
  /\ QueueReturned
  /\ result.impl = "client"
  /\ Len(TraceOf.locals.operations) = 4
  /\ TraceOf.locals.operations[1].type = "dequeue"
  /\ TraceOf.locals.operations[3].type = "dequeue"
  /\ result.finalState = <<2>>

(***************************************************************************)
(* The page (Home): the editor's code, the detected algorithm, the         *)
(* execution result and the step cursor over its steps.                    *)
(***************************************************************************)
selectedLanguage == "javascript"

\* handleCodeChange asks for a detection when the trimmed code is longer
DetectThreshold == 50

\* the texts the editor is given: empty, blank, one short text per trace
\* kind, and two texts long enough to be sent to detection
PageCodes ==
  {<<>>,
   <<" ","\n"," ">>,
   <<"x"," ","="," ","1">>,
   <<"x"," ","="," ","1","\n","y"," ","="," ","2">>,
   <<"b","i","n","a","r","y"," ","s","e","a","r","c","h">>,
   <<"s","o","r","t","(","a",")">>,
   <<"f","u","n","c","t","i","o","n"," ","q","u","i","c","k","S","o","r","t","(","a","r","r",")"," ","{"," ","r","e","t","u","r","n"," ","a","r","r",".","s","o","r","t","(","c","o","m","p","a","r","e",")",";"," ","}">>,
   <<"f","u","n","c","t","i","o","n"," ","b","i","n","a","r","y","S","e","a","r","c","h","(","a","r","r",","," ","t","a","r","g","e","t",")"," ","{"," ","r","e","t","u","r","n"," ","m","i","d",";"," ","}">>}

StepDirections == {"forward", "backward"}

\* handleCodeChange(newCode)
HandleCodeChange(newCode) ==
  /\ code' = newCode
  /\ detectAlgorithmMutation' =
       IF Len(Trim(newCode)) > DetectThreshold
         THEN detectAlgorithmMutation \cup {[code |-> newCode, language |-> selectedLanguage]}
         ELSE detectAlgorithmMutation
  /\ UNCHANGED <<detected, traceVars, storageVars, executionResult, currentStep, isPlaying,
                 executeCodeMutation>>

\* the answer to a detect request: onSuccess keeps the data, onError only
\* shows a toast
DetectResponse(request) ==
  /\ request \in detectAlgorithmMutation
  /\ detectAlgorithmMutation' = detectAlgorithmMutation \ {request}
  /\ Bind(DetectRoute(request.code, request.language), LAMBDA response :
       detected' = IF response.status = 200 THEN response ELSE detected)
  /\ UNCHANGED <<code, traceVars, storageVars, executionResult, currentStep, isPlaying,
                 executeCodeMutation>>

\* handleVisualize(), behind the Visualize button, which is disabled while
\* the execute request is pending; no input is sent
HandleVisualize ==
  /\ executeCodeMutation = NoCall
  /\ executeCodeMutation' = ServerCall(code, Undefined)
  /\ UNCHANGED <<classifyVars, traceVars, storageVars, executionResult, currentStep, isPlaying,
                 detectAlgorithmMutation>>

\* the answer to the execute request: onSuccess keeps the data and puts the
\* cursor on step 0, onError only shows a toast
ExecuteResponse ==
  /\ executeCodeMutation # NoCall
  /\ executeCodeMutation' = NoCall
  /\ Bind(ExecuteRoute(executeCodeMutation.code, executeCodeMutation.language,
                       executeCodeMutation.input), LAMBDA response :
       IF response.status = 200
         THEN /\ executionResult' = response.body
              /\ currentStep' = 0
         ELSE UNCHANGED <<executionResult, currentStep>>)
  /\ UNCHANGED <<classifyVars, traceVars, storageVars, isPlaying, detectAlgorithmMutation>>

\* handlePlayPause()
HandlePlayPause ==
  /\ isPlaying' = ~isPlaying
  /\ UNCHANGED <<classifyVars, traceVars, storageVars, executionResult, currentStep,
                 executeCodeMutation, detectAlgorithmMutation>>

\* executionResult?.steps is there
HasSteps == executionResult # Null

\* handleStep with currentStep <= maxSteps as the forward guard
HandleStepInclusive(direction) ==
  /\ IF ~HasSteps THEN UNCHANGED currentStep
     ELSE LET maxSteps == Len(executionResult.steps) - 1
          IN IF direction = "forward" /\ currentStep <= maxSteps
               THEN currentStep' = currentStep + 1
             ELSE IF direction = "backward" /\ currentStep > 0
               THEN currentStep' = currentStep - 1
             ELSE UNCHANGED currentStep
  /\ UNCHANGED <<classifyVars, traceVars, storageVars, executionResult, isPlaying,
                 executeCodeMutation, detectAlgorithmMutation>>

\* handleStep(direction)
HandleStep(direction) ==
  /\ IF ~HasSteps THEN UNCHANGED currentStep
     ELSE LET maxSteps == Len(executionResult.steps) - 1
          IN IF direction = "forward" /\ currentStep < maxSteps
               THEN currentStep' = currentStep + 1
             ELSE IF direction = "backward" /\ currentStep > 0
               THEN currentStep' = currentStep - 1
             ELSE UNCHANGED currentStep
  /\ UNCHANGED <<classifyVars, traceVars, storageVars, executionResult, isPlaying,
                 executeCodeMutation, detectAlgorithmMutation>>

\* handleReset without setIsPlaying(false)
HandleResetCursorOnly ==
  /\ currentStep' = 0
  /\ UNCHANGED <<classifyVars, traceVars, storageVars, executionResult, isPlaying,
                 executeCodeMutation, detectAlgorithmMutation>>

\* handleReset()
HandleReset ==
  /\ isPlaying' = FALSE
  /\ currentStep' = 0
  /\ UNCHANGED <<classifyVars, traceVars, storageVars, executionResult, executeCodeMutation,
                 detectAlgorithmMutation>>

\* the step buttons of ExecutionControls, which get steps.length || 0 as
\* maxSteps, are disabled in these states
MaxStepsProp == IF HasSteps THEN Len(executionResult.steps) ELSE 0
StepBackwardDisabled == currentStep = 0 \/ MaxStepsProp = 0
StepForwardDisabled == currentStep >= MaxStepsProp - 1 \/ MaxStepsProp = 0

InitPage ==
  /\ code \in PageCodes
  /\ detected = NoResult
  /\ IdleTrace
  /\ IdlePage
  /\ IdleStorage

NextPage ==
  \/ \E newCode \in PageCodes : HandleCodeChange(newCode)
  \/ \E request \in detectAlgorithmMutation : DetectResponse(request)
  \/ HandleVisualize
  \/ ExecuteResponse
  \/ HandlePlayPause
  \/ \E direction \in StepDirections : HandleStep(direction)
  \/ HandleReset

SpecCursor == InitPage /\ [][NextPage]_vars

(***************************************************************************)
(* Properties of the step cursor.                                          *)
(***************************************************************************)
NonEmptySteps == HasSteps /\ Len(executionResult.steps) >= 1
LastIndex == Len(executionResult.steps) - 1

\* C9: over a non-empty step list, a step backward at index 0 and a step
\* forward at the last index leave the cursor where it is, and after every
\* step forward, step backward and reset the cursor is in 0..steps.length-1.
C9_CursorStaysInList ==
  [][/\ (NonEmptySteps /\ HandleStep("backward") /\ currentStep = 0) => currentStep' = 0
     /\ (NonEmptySteps /\ HandleStep("forward") /\ currentStep = LastIndex)
          => currentStep' = LastIndex
     /\ (NonEmptySteps
           /\ (HandleStep("forward") \/ HandleStep("backward") \/ HandleReset))
          => (0 <= currentStep' /\ currentStep' <= LastIndex)
     /\ NonEmptySteps' => (0 <= currentStep' /\ currentStep' <= Len(executionResult'.steps) - 1)
    ]_vars

\* the cursor stepped forward to the last of several steps, where the
\* forward button is disabled and the backward button is not
C9_Witness ==
  /\ NonEmptySteps
  /\ LastIndex >= 2
  /\ currentStep = LastIndex
  /\ StepForwardDisabled
  /\ ~StepBackwardDisabled

(***************************************************************************)
(* Execution with every kind of optional input: absent, null, an array, an *)
(* object with or without the fields the generators read, and a scalar.    *)
(***************************************************************************)
ExecuteInputs ==
  {Undefined, Null, Num(0), Num(5), Arr(<<>>), Arr(<<3, 1, 2>>), Obj(<<>>),
   Obj([array |-> Arr(<<1, 3, 5>>), target |-> Num(3)]),
   Obj([array |-> Arr(<<1, 3, 5>>)]),
   Obj([target |-> Num(3)])}

ExecuteCalls ==
  {ServerCall(t, input) : t \in Texts(1) \ {<<>>}, input \in ExecuteInputs}
    \cup {ClientCall(t) : t \in Texts(1)}

InitExecute ==
  /\ call \in ExecuteCalls
  /\ result = NoResult
  /\ IdleClassify
  /\ IdlePage
  /\ IdleStorage

SpecExecute == InitExecute /\ [][NextTrace]_vars

\* C10: for every source text and every optional input value, trace
\* generation does not raise and returns a step list.
C10_TraceNeverRaises ==
  result # NoResult
    => /\ ~result.raised
       /\ result.impl = "server" => result.status = 200
       /\ DOMAIN StepsOf = 1..Len(StepsOf)

(***************************************************************************)
(* The two POST routes on requests that have or lack code and language.    *)
(* A missing field and an empty string are the same to !code, !language.   *)
(***************************************************************************)
RequestLanguages == {"", "javascript"}

DetectCall(text, language) ==
  [impl |-> "detect", code |-> text, language |-> language, input |-> Undefined]

\* POST /api/algorithm/detect on the request of the call
DetectRequest ==
  /\ call.impl = "detect"
  /\ result = NoResult
  /\ result' = DetectRoute(call.code, call.language)
  /\ UNCHANGED <<call, classifyVars, pageVars, storageVars>>

RouteCalls ==
  {[ServerCall(t, input) EXCEPT !.language = l] :
     t \in Texts(1), l \in RequestLanguages, input \in ExecuteInputs}
    \cup {DetectCall(t, l) : t \in Texts(1), l \in RequestLanguages}

InitRoutes ==
  /\ call \in RouteCalls
  /\ result = NoResult
  /\ IdleClassify
  /\ IdlePage
  /\ IdleStorage

NextRoutes == ServerExecute \/ DetectRequest

SpecRoutes == InitRoutes /\ [][NextRoutes]_vars

Answered == result # NoResult
FieldMissing == call.code = <<>> \/ call.language = ""

\* C11: both routes answer 400 when code or language is missing, with
\* nothing of a classification or a trace in the answer; when both are
\* present, detect answers 200 with the detection result and execute
\* answers 200 with the trace result.
C11_RoutesValidateRequest ==
  Answered
    => IF FieldMissing
         THEN /\ result.status = 400
              /\ DOMAIN result \subseteq {"impl", "status", "raised"}
         ELSE /\ result.status = 200
              /\ call.impl = "detect"
                   => {"type", "confidence"} \subseteq DOMAIN result
              /\ call.impl = "server"
                   => /\ "body" \in DOMAIN result
                      /\ "steps" \in DOMAIN result.body

(***************************************************************************)
(* The project routes over the projects table (DatabaseStorage).           *)
(* Ids stand for the generated uuids; the two timestamp columns are not    *)
(* kept.                                                                   *)
(***************************************************************************)
MaxProjects == 2

Str(s) == [kind |-> "string", text |-> s]
Bool(b) == [kind |-> "boolean", flag |-> b]

\* the ids a request can name: one more than the table can hold
ProjectIds == 1..(MaxProjects + 1)

\* the rows of the users table, which no route changes
Users == {"u1"}

\* insertProjectSchema: the columns of projects without id, createdAt and
\* updatedAt; notNull columns without a default are required
RequiredColumns == {"name", "language", "code"}
NullableColumns == {"userId", "algorithmType"}
InsertColumns == RequiredColumns \cup NullableColumns \cup {"isPublic"}

\* the zod type of one column accepts the value
ColumnAccepts(column, v) ==
  CASE column \in RequiredColumns -> v.kind = "string"
    [] column \in NullableColumns -> v.kind \in {"string", "null"}
    [] OTHER -> v.kind = "boolean"

\* insertProjectSchema.parse(body) does not throw a ZodError
SchemaAccepts(body) ==
  /\ body.kind = "object"
  /\ RequiredColumns \subseteq DOMAIN body.fields
  /\ \A column \in DOMAIN body.fields \cap InsertColumns :
       ColumnAccepts(column, body.fields[column])

\* insertProjectSchema.partial().parse(body) does not throw a ZodError
PartialSchemaAccepts(body) ==
  /\ body.kind = "object"
  /\ \A column \in DOMAIN body.fields \cap InsertColumns :
       ColumnAccepts(column, body.fields[column])

\* what parse returns: the known columns of the body, unknown keys stripped
Parsed(body) ==
  [column \in DOMAIN body.fields \cap InsertColumns |-> body.fields[column]]

\* the column defaults of an inserted row
ColumnDefaults == [userId |-> Null, algorithmType |-> Null, isPublic |-> Bool(FALSE)]

\* the foreign key of user_id: a statement that would store a row whose
\* user is not in users is rejected by the database
ForeignKeyHolds(data) ==
  "userId" \in DOMAIN data /\ data.userId.kind = "string" => data.userId.text \in Users

\* storage.getProject(id): the row, or undefined
GetProject(id) == IF id \in DOMAIN projects THEN Obj(projects[id]) ELSE Undefined

\* storage.createProject(data): the table with the row inserted under a
\* generated id
CreateProject(id, data) ==
  [i \in DOMAIN projects \cup {id} |->
     IF i = id THEN Merge(data, ColumnDefaults) ELSE projects[i]]

\* a variant of updateProject that inserts the row when the id is not stored
UpdateProjectUpsert(id, data) ==
  [i \in DOMAIN projects \cup {id} |->
     IF i = id
       THEN Merge(data, IF id \in DOMAIN projects THEN projects[id] ELSE ColumnDefaults)
       ELSE projects[i]]

\* storage.updateProject(id, data): the table after UPDATE ... WHERE id
UpdateProject(id, data) ==
  [i \in DOMAIN projects |-> IF i = id THEN Merge(data, projects[i]) ELSE projects[i]]

\* storage.deleteProject(id): the table after DELETE ... WHERE id
DeleteProject(id) == [i \in DOMAIN projects \ {id} |-> projects[i]]

ProjectCall(method, id, body) ==
  [impl |-> "projects", method |-> method, id |-> id, body |-> body]

Answer(status) == [impl |-> "projects", status |-> status]

\* the statement raised (a rejected foreign key, a lost connection, a
\* project that a visualization still references): the route's catch
\* answers 500
DatabaseRaised == result' = Answer(500) /\ UNCHANGED projects

\* POST /api/projects
PostProjectRoute(body) ==
  /\ call' = ProjectCall("POST", 0, body)
  /\ IF ~SchemaAccepts(body)
       THEN result' = Answer(400) /\ UNCHANGED projects
       ELSE \/ DatabaseRaised
            \/ /\ ForeignKeyHolds(Parsed(body))
               /\ Cardinality(DOMAIN projects) < MaxProjects
               /\ \E id \in ProjectIds \ DOMAIN projects :
                    /\ projects' = CreateProject(id, Parsed(body))
                    /\ result' = Merge([id |-> id], Answer(201))
  /\ UNCHANGED <<classifyVars, pageVars>>

\* GET /api/projects/:id
GetProjectRoute(id) ==
  /\ call' = ProjectCall("GET", id, Undefined)
  /\ \/ DatabaseRaised
     \/ /\ result' = IF Truthy(GetProject(id)) THEN Answer(200) ELSE Answer(404)
        /\ UNCHANGED projects
  /\ UNCHANGED <<classifyVars, pageVars>>

\* PATCH /api/projects/:id
PatchProjectRoute(id, body) ==
  /\ call' = ProjectCall("PATCH", id, body)
  /\ IF ~PartialSchemaAccepts(body)
       THEN result' = Answer(400) /\ UNCHANGED projects
       ELSE \/ DatabaseRaised
            \/ Bind(UpdateProject(id, Parsed(body)), LAMBDA updated :
                 /\ id \in DOMAIN updated => ForeignKeyHolds(updated[id])
                 /\ projects' = updated
                 /\ result' = IF id \in DOMAIN updated THEN Answer(200) ELSE Answer(404))
  /\ UNCHANGED <<classifyVars, pageVars>>

\* DELETE /api/projects/:id
DeleteProjectRoute(id) ==
  /\ call' = ProjectCall("DELETE", id, Undefined)
  /\ \/ DatabaseRaised
     \/ /\ projects' = DeleteProject(id)
        /\ result' = IF id \in DOMAIN projects THEN Answer(200) ELSE Answer(404)
  /\ UNCHANGED <<classifyVars, pageVars>>

\* the request bodies
NewProject == [name |-> Str("a"), language |-> Str("javascript"), code |-> Str("x")]
ProjectBodies ==
  {Undefined,
   Obj(<<>>),
   Obj(NewProject),
   Obj(Merge([isPublic |-> Bool(TRUE)], NewProject)),
   Obj(Merge([userId |-> Str("u9")], NewProject)),
   Obj(Merge([extra |-> Num(1)], NewProject)),
   Obj(Merge([name |-> Num(1)], NewProject)),
   Obj([code |-> Str("y")]),
   Obj([userId |-> Str("u1")]),
   Obj([userId |-> Str("u9")]),
   Obj([isPublic |-> Str("yes")])}

InitProjects ==
  /\ projects = <<>>
  /\ IdleTrace
  /\ IdleClassify
  /\ IdlePage

NextProjects ==
  \/ \E body \in ProjectBodies : PostProjectRoute(body)
  \/ \E id \in ProjectIds : GetProjectRoute(id)
  \/ \E id \in ProjectIds, body \in ProjectBodies : PatchProjectRoute(id, body)
  \/ \E id \in ProjectIds : DeleteProjectRoute(id)

SpecProjects == InitProjects /\ [][NextProjects]_vars

\* the request just answered names an id that was not stored before it
OnMissingId == call'.method \in {"GET", "PATCH", "DELETE"} /\ call'.id \notin DOMAIN projects
\* the request just answered carries a body that its schema rejects
BodyRejected ==
  \/ call'.method = "POST" /\ ~SchemaAccepts(call'.body)
  \/ call'.method = "PATCH" /\ ~PartialSchemaAccepts(call'.body)
ErrorAnswered == result'.status \in {400, 404}

\* C12 as stated: a GET, PATCH or DELETE on an id that is not stored is
\* answered 404, a POST or PATCH with a body that fails validation is
\* answered 400, and an error answer leaves the stored projects unchanged.
C12_ProjectErrors ==
  [][/\ OnMissingId => result'.status = 404
     /\ BodyRejected => result'.status = 400
     /\ ErrorAnswered => projects' = projects]_vars

\* C12: a POST or PATCH with a body that fails validation is answered 400,
\* also when the PATCH names an id that is not stored; a GET or DELETE on an
\* id that is not stored, and a PATCH on it with a body that passes
\* validation, is answered 404 unless the database statement raised, which
\* is answered 500; each of these error answers leaves the stored projects
\* unchanged.
C12_ProjectErrorsValidationFirst ==
  [][/\ OnMissingId /\ ~BodyRejected /\ result'.status # 500 => result'.status = 404
     /\ BodyRejected => result'.status = 400
     /\ result'.status \in {400, 404, 500} => projects' = projects]_vars

\* a PATCH with a valid body on an id that is not stored was answered 404
\* while a project is stored
C12_Witness ==
  /\ call.impl = "projects"
  /\ call.method = "PATCH"
  /\ PartialSchemaAccepts(call.body)
  /\ call.id \notin DOMAIN projects
  /\ result.status = 404
  /\ projects # <<>>

(***************************************************************************)
(* The operation count of the complexity analysis.                         *)
(***************************************************************************)
\* complexityAnalysis.operations of the trace result
OperationsOf == IF result.impl = "server" THEN result.body.operations ELSE result.operations

HasComplexityAnalysis ==
  Returned /\ "operations" \in DOMAIN (IF result.impl = "server" THEN result.body ELSE result)

\* C13: in every trace result of either tracer, whatever the category, the
\* operation count of the complexity analysis is the number of steps.
C13_OperationsCountSteps == HasComplexityAnalysis => OperationsOf = Len(StepsOf)

(***************************************************************************)
(* The renderers: what the drawing surface holds once a step is rendered.  *)
(***************************************************************************)
\* the keys of a step that the trace generators push
TraceStepKeys ==
  {"lineNumber", "lineContent", "variables", "dataStructures", "description", "action",
   "timestamp", "memoryState"}

\* executionResult.steps[currentStep]: the step, or undefined past the end
StepAt(steps, index) == IF index < Len(steps) THEN steps[index + 1] ELSE Undefined

\* stepData && stepData[key] is truthy: the generators give every key they
\* push an object, an array or a non-empty string, and no other key
HasField(stepData, key) == stepData # Undefined /\ key \in TraceStepKeys

\* createSortingVisualization, createSearchVisualization: the children
\* appended to the svg
CreateSortingVisualization(stepData) ==
  IF ~HasField(stepData, "array") THEN <<>> ELSE <<"g">>
CreateSearchVisualization(stepData) ==
  IF ~HasField(stepData, "array") THEN <<>> ELSE <<"g">>
\* createGraphVisualization
CreateGraphVisualization(stepData) ==
  IF ~HasField(stepData, "nodes") \/ ~HasField(stepData, "edges") THEN <<>> ELSE <<"g">>
\* createDefaultVisualization: a group with the placeholder text
CreateDefaultVisualization == <<"g">>

\* the effect of AlgorithmVisualization: the svg is cleared and the
\* visualization of the result's algorithm type is drawn on it
DrawnSvg(execution, index) ==
  Bind(StepAt(execution.steps, index), LAMBDA currentStepData :
    CASE execution.algorithmType = "sorting" -> CreateSortingVisualization(currentStepData)
      [] execution.algorithmType = "searching" -> CreateSearchVisualization(currentStepData)
      [] execution.algorithmType = "graph" -> CreateGraphVisualization(currentStepData)
      [] OTHER -> CreateDefaultVisualization)

\* what the visualization panel shows: the placeholder before the first
\* result, the svg afterwards
AlgorithmVisualization ==
  IF executionResult = Null THEN <<"placeholder">> ELSE DrawnSvg(executionResult, currentStep)

\* C14: for every step of every trace the pipeline returns, the renderer
\* draws a frame or a placeholder: the drawing surface is never left empty.
C14_SurfaceNeverEmpty == AlgorithmVisualization # <<>>

(***************************************************************************)
(* A trace generator invoked a second time with the same text and input:   *)
(* the same request sent again to the server, and trace() called again on  *)
(* the CodeTracer instance of the first call.                              *)
(***************************************************************************)
\* the step list of an answer, empty when the route answered an error
StepListOf(r) ==
  IF r.impl = "server" THEN (IF r.status = 200 THEN r.body.steps ELSE <<>>) ELSE r.steps

Invoked(n) ==
  /\ result # NoResult
  /\ (IF "invocation" \in DOMAIN result THEN result.invocation ELSE 1) = n

\* POST /api/execute with the body of the first request, once more
ServerExecuteAgain ==
  /\ call.impl = "server"
  /\ Invoked(1)
  /\ result' = Merge([invocation |-> 2, firstSteps |-> StepListOf(result)],
                     ExecuteRoute(call.code, call.language, call.input))
  /\ UNCHANGED <<call, classifyVars, pageVars, storageVars>>

\* tracer.trace() once more on the instance that made the first trace: its
\* steps, dataStructures and currentLine are those the first call left
ClientTraceAgain ==
  /\ call.impl = "client"
  /\ Invoked(1)
  /\ result' = Merge([invocation |-> 2, firstSteps |-> StepListOf(result)],
                     Trace(result.tracer, call.code))
  /\ UNCHANGED <<call, classifyVars, pageVars, storageVars>>

NextAgain == ServerExecute \/ ClientTrace \/ ServerExecuteAgain \/ ClientTraceAgain

SpecAgain == InitExecute /\ [][NextAgain]_vars

\* C15: two invocations with the same text and input return the same
\* ordered step list, also when the second is a second trace() call on the
\* same client CodeTracer instance.
C15_TraceIsPure == Invoked(2) => StepListOf(result) = result.firstSteps

(***************************************************************************)
(* Playback: the four handlers behind the execution controls.              *)
(***************************************************************************)
Playback ==
  HandlePlayPause \/ HandleStep("forward") \/ HandleStep("backward") \/ HandleReset

\* C16: play/pause, step forward, step backward and reset change only the
\* cursor and the playing flag, never the step list, and send no execute
\* request; a step forward from an index that is not the last moves the
\* cursor up by one and a step backward from an index above 0 moves it down
\* by one, so forward then backward restores the cursor; reset leaves the
\* cursor at 0 and the flag off, a state that a second reset does not change.
C16_PlaybackReplayable ==
  [][/\ Playback
          => /\ executionResult' = executionResult
             /\ executeCodeMutation' = executeCodeMutation
             /\ detectAlgorithmMutation' = detectAlgorithmMutation
             /\ code' = code
     /\ (NonEmptySteps /\ currentStep < LastIndex /\ HandleStep("forward"))
          => /\ currentStep' = currentStep + 1
             /\ currentStep' > 0
     /\ (HasSteps /\ currentStep > 0 /\ HandleStep("backward"))
          => currentStep' = currentStep - 1
     /\ HandleReset => (currentStep' = 0 /\ isPlaying' = FALSE)
     /\ (currentStep = 0 /\ isPlaying = FALSE /\ HandleReset) => UNCHANGED vars
    ]_vars

\* playing, with the cursor stepped into the middle of a list of several
\* steps and no execute request in flight
C16_Witness ==
  /\ NonEmptySteps
  /\ LastIndex >= 2
  /\ currentStep = 1
  /\ isPlaying
  /\ executeCodeMutation = NoCall

(***************************************************************************)
(* The score of a category.                                                *)
(***************************************************************************)
\* the regular expressions of the variant that produced the result: the
\* server categories have none
PatternsOf(i) == IF detected.impl = "client" THEN algorithmPatterns[i].patterns ELSE <<>>

\* the places of the text at which the keyword starts
OccurrencesOf(keyword, text) ==
  {at \in 1..(Len(text) - Len(keyword) + 1) : SubSeq(text, at, at + Len(keyword) - 1) = keyword}

\* the keywords that occur in the text at least once
OccurringKeywords(keywords, text) ==
  {i \in 1..Len(keywords) : OccurrencesOf(keywords[i], text) # {}}

\* C17 as stated: a category's score is the number of occurrences of its
\* keywords in the lower-cased source, plus 2 for each of its regular
\* expressions that matches, in both classifier variants.
C17_ScoreCountsOccurrences ==
  Classified
    => \A i \in DOMAIN detected.scores :
         detected.scores[i] = KeywordOccurrences(KeywordsOf(i), NormalizedCode)
                                + 2 * PatternHits(PatternsOf(i), code)

\* C17: a category's score is the number of its keywords that occur in the
\* lower-cased source, each counted once however often it occurs, plus 2 for
\* each of its regular expressions that matches the source; the server
\* categories have no regular expressions.
C17_ScoreCountsKeywords ==
  Classified
    => \A i \in DOMAIN detected.scores :
         detected.scores[i] = Cardinality(OccurringKeywords(KeywordsOf(i), NormalizedCode))
                                + 2 * PatternHits(PatternsOf(i), code)

\* a client result in which a keyword of the winning category occurs twice
\* and one of its regular expressions matches
C17_Witness ==
  /\ Classified
  /\ detected.impl = "client"
  /\ \E i \in DOMAIN detected.scores :
       /\ detected.type = detected.types[i]
       /\ \E k \in 1..Len(KeywordsOf(i)) :
            Cardinality(OccurrencesOf(KeywordsOf(i)[k], NormalizedCode)) >= 2
       /\ PatternHits(PatternsOf(i), code) >= 1

(***************************************************************************)
(* The pivot of the server sorting trace.                                  *)
(***************************************************************************)
ChoosePivotStep == StepWith(StepsOf, "CHOOSE_PIVOT")

\* C18: the pivot index of the CHOOSE_PIVOT step follows the detected
\* strategy: floor(n/2) for 'middle', 0 for 'first', n-1 for 'last', for an
\* array of length n.
C18_PivotIndexFollowsStrategy ==
  ServerSortReturned
    => LET n == Len(TraceOf.locals.array)
       IN ChoosePivotStep.pivotIndex =
            CASE ChoosePivotStep.strategy = "middle" -> n \div 2
              [] ChoosePivotStep.strategy = "first" -> 0
              [] ChoosePivotStep.strategy = "last" -> n - 1

\* the left and right of the PARTITION step as the generator computed them
PartitionOf(steps) ==
  <<StepWith(steps, "PARTITION").describedLeft, StepWith(steps, "PARTITION").describedRight>>

\* the trace of the same array literal under the pivot line p
SortedUnder(arr, p) == GenerateSortingTraceSteps(NonBlankLines(SortSourceOf(arr, p)), Undefined)

\* C19: for a given input array the left and right partitions of the server
\* sorting trace are the same whichever pivot strategy is detected.
C19_PartitionIgnoresStrategy ==
  (ServerSortReturned /\ TraceOf.locals.array # <<>>)
    => \A p \in PivotLines :
         PartitionOf(SortedUnder(TraceOf.locals.array, p).steps) = PartitionOf(StepsOf)

(***************************************************************************)
(* The queue operations that a source text calls for.                      *)
(***************************************************************************)
EnqueueCall ==
  Cat(<<Lit(<<"e","n","q","u","e","u","e">>), Star(SpaceClass), Lit(<<"(">>), Star(SpaceClass)>>)
DequeueCall ==
  Re(Cat(<<Lit(<<"d","e","q","u","e","u","e">>), Star(SpaceClass), Lit(<<"(">>), Star(SpaceClass), Lit(<<")">>)>>))

\* the enqueue(n) and dequeue() calls of the lines, in source order (the
\* lines considered hold at most one call each)
RECURSIVE CallsOf(_)
CallsOf(lines) ==
  IF Len(lines) = 0 THEN <<>>
  ELSE Bind(MatchGroup(EnqueueCall, Plus(DigitClass),
                       Cat(<<Star(SpaceClass), Lit(<<")">>)>>), Head(lines)), LAMBDA enqueue :
         (IF enqueue[1]
            THEN <<[type |-> "enqueue", value |-> Num(ParseInt(enqueue[2]))]>>
          ELSE IF Exec(DequeueCall, Head(lines))
            THEN <<[type |-> "dequeue", value |-> Undefined]>>
          ELSE <<>>)
           \o CallsOf(Tail(lines)))

\* C20: for queue-category source, every enqueue(n) and dequeue() call of
\* the source becomes one operation, in source order, with one step for each
\* operation after the initial step; the default operations are replayed
\* only when the source has no such call; for the client and for the server
\* generator.
C20_QueueOperationsFromSource ==
  QueueReturned
    => LET calls == CallsOf(Split(call.code, "\n"))
           operations == TraceOf.locals.operations
       IN /\ calls # <<>> => operations = calls
          /\ calls = <<>> => operations = DefaultOperations
          /\ Len(StepsOf) = Len(operations) + 1

(***************************************************************************)
(* Traces of texts of several lines, blank ones among them, by the client  *)
(* tracer and by the execute route.                                        *)
(***************************************************************************)
LineCalls ==
  {ServerCall(t, Undefined) : t \in Texts(MaxLines) \ {<<>>}}
    \cup {ClientCall(t) : t \in Texts(MaxLines)}

InitLines ==
  /\ call \in LineCalls
  /\ result = NoResult
  /\ IdleClassify
  /\ IdlePage
  /\ IdleStorage

SpecLines == InitLines /\ [][NextTrace]_vars

\* the trace came from the per-line walk, not from a dedicated generator
GenericReturned == Returned /\ TypeOf \notin {"sorting", "searching", "queue"}

\* the non-blank lines of the source text, in source order
SourceLines == SelectSeq(Split(call.code, "\n"), LAMBDA l : Trim(l) # <<>>)

\* C21: for the categories without a dedicated generator the trace is one
\* step per non-blank source line, in source order, each with action
\* EXECUTE and empty variable and data-structure snapshots, in the client
\* and in the server generator.
C21_OneStepPerNonBlankLine ==
  GenericReturned
    => /\ Len(StepsOf) = Len(SourceLines)
       /\ \A k \in 1..Len(StepsOf) :
            /\ StepsOf[k].action = "EXECUTE"
            /\ StepsOf[k].lineContent = SourceLines[k]
            /\ StepsOf[k].variables = <<>>
            /\ StepsOf[k].dataStructures = <<>>

(***************************************************************************)
(* Searching traces of sources that name the array and the target.         *)
(***************************************************************************)
LiteralInputs == (SmallArrays \ {<<>>}) \X (0..(MaxSmallVal + 1))

LiteralCalls ==
  {ServerCall(SearchSource(in[1], in[2]), Undefined) : in \in LiteralInputs}
    \cup {ClientCall(SearchSource(in[1], in[2])) : in \in LiteralInputs}
    \cup {ServerCall(<<"b","i","n","a","r","y"," ","s","e","a","r","c","h">>, Undefined), ClientCall(<<"b","i","n","a","r","y"," ","s","e","a","r","c","h">>)}

InitLiteral ==
  /\ call \in LiteralCalls
  /\ result = NoResult
  /\ IdleClassify
  /\ IdlePage
  /\ IdleStorage

SpecLiteral == InitLiteral /\ [][NextTrace]_vars

\* C22: when the source holds an integer array literal and an assignment
\* target = n with n >= 0, the searching trace searches that array for n;
\* the defaults [1,3,5,7,9,11,13,15] and 7 are used when the source holds no
\* literal.
C22_SearchesExtractedArray ==
  SearchReturned
    => /\ \A in \in LiteralInputs :
            call.code = SearchSource(in[1], in[2])
              => (SearchArray = in[1] /\ SearchTarget = in[2])
       /\ call.code = <<"b","i","n","a","r","y"," ","s","e","a","r","c","h">>
            => (SearchArray = <<1, 3, 5, 7, 9, 11, 13, 15>> /\ SearchTarget = 7)

(***************************************************************************)
(* Steps as snapshots: what a step shows when the generator returns,       *)
(* against what it held when it was pushed.                                *)
(***************************************************************************)
HasStep(steps, action) == \E i \in 1..Len(steps) : steps[i].action = action

\* C23: once a step is appended, the arrays in its variables and in its
\* data-structure entries are not changed by the generation of later steps:
\* at return every step shows the values it had when it was emitted.
C23_StepsAreSnapshots ==
  ServerSortReturned
    => /\ Shown(StepWith(StepsOf, "PARTITION").left)
            = StepWith(StepsOf, "PARTITION").describedLeft
       /\ Shown(StepWith(StepsOf, "PARTITION").right)
            = StepWith(StepsOf, "PARTITION").describedRight
       /\ HasStep(StepsOf, "RECURSIVE_LEFT")
            => Shown(StepWith(StepsOf, "RECURSIVE_LEFT").data)
                 = StepWith(StepsOf, "RECURSIVE_LEFT").describedLeft
       /\ HasStep(StepsOf, "RECURSIVE_RIGHT")
            => Shown(StepWith(StepsOf, "RECURSIVE_RIGHT").data)
                 = StepWith(StepsOf, "RECURSIVE_RIGHT").describedRight

\* the contents of the queue that a step of a queue trace carries
QueueSnapshot(step) ==
  IF "dataStructures" \in DOMAIN step
    THEN step.dataStructures[CHOOSE i \in 1..Len(step.dataStructures) :
                               step.dataStructures[i].key = "queue"].data
    ELSE step.data

\* C24: in a queue trace the snapshot of each ENQUEUE or DEQUEUE step is the
\* queue after that operation, so the snapshot of the last step is the final
\* queue ([20, 30] for the default operations), in the client tracer and in
\* the server generator.
C24_SnapshotAfterOperation ==
  QueueReturned
    => LET ops == TraceOf.locals.operations
       IN /\ \A k \in 1..Len(ops) :
               /\ StepsOf[k + 1].action \in {"ENQUEUE", "DEQUEUE"}
               /\ QueueSnapshot(StepsOf[k + 1]) = Fifo(ops, k)
          /\ QueueSnapshot(StepsOf[Len(StepsOf)]) = TraceOf.locals.queue
          /\ ops = DefaultOperations => QueueSnapshot(StepsOf[Len(StepsOf)]) = <<20, 30>>

\* C25: whenever the page holds an execution result, the cursor indexes an
\* existing step: 0 <= currentStep < steps.length, after any sequence of
\* execute responses, step actions and resets, for every text the execute
\* endpoint accepts.
C25_CursorIndexesStep ==
  HasSteps => (0 <= currentStep /\ currentStep < Len(executionResult.steps))

(***************************************************************************)
(* Playback.  No timer, interval or effect of the page or of its controls  *)
(* reads isPlaying: the handlers of NextPage are all that moves the        *)
(* cursor.  The requests the page has sent are answered in the end.        *)
(***************************************************************************)
\* what the two routes answer to the requests the page can send
ExecuteAnswers == [c \in PageCodes |-> ExecuteRoute(c, selectedLanguage, Undefined)]

\* texts of successive edits: two that are not sent to detection and three
\* that are, of different categories
OverlapCodes ==
  {<<>>,
   <<"x"," ","="," ","1">>,
   <<"f","u","n","c","t","i","o","n"," ","q","u","i","c","k","S","o","r","t","(","a","r","r",")"," ","{"," ","r","e","t","u","r","n"," ","a","r","r",".","s","o","r","t","(","c","o","m","p","a","r","e",")",";"," ","}">>,
   <<"f","u","n","c","t","i","o","n"," ","b","i","n","a","r","y","S","e","a","r","c","h","(","a","r","r",","," ","t","a","r","g","e","t",")"," ","{"," ","r","e","t","u","r","n"," ","m","i","d","d","l","e",";"," ","}">>,
   <<"f","u","n","c","t","i","o","n"," ","s","e","r","v","e","(","q","u","e","u","e",")"," ","{"," ","q","u","e","u","e",".","e","n","q","u","e","u","e","(","1",")",";"," ","q","u","e","u","e",".","d","e","q","u","e","u","e","(",")",";"," ","}">>}

DetectAnswers == [c \in PageCodes \cup OverlapCodes |-> DetectRoute(c, selectedLanguage)]

\* ExecuteResponse, the answer looked up in ExecuteAnswers
ExecuteAnswered ==
  /\ executeCodeMutation # NoCall
  /\ executeCodeMutation' = NoCall
  /\ IF ExecuteAnswers[executeCodeMutation.code].status = 200
       THEN /\ executionResult' = ExecuteAnswers[executeCodeMutation.code].body
            /\ currentStep' = 0
       ELSE UNCHANGED <<executionResult, currentStep>>
  /\ UNCHANGED <<classifyVars, traceVars, storageVars, isPlaying, detectAlgorithmMutation>>

\* DetectResponse of some pending request, the answer looked up in
\* DetectAnswers
DetectAnswered ==
  \E request \in detectAlgorithmMutation :
    /\ detectAlgorithmMutation' = detectAlgorithmMutation \ {request}
    /\ detected' = IF DetectAnswers[request.code].status = 200
                     THEN DetectAnswers[request.code] ELSE detected
    /\ UNCHANGED <<code, traceVars, storageVars, executionResult, currentStep, isPlaying,
                   executeCodeMutation>>

\* a user who, once play is on, leaves the cursor to the page: the only
\* inputs then are pause and reset, while pending requests are answered
NextPlay ==
  \/ ~isPlaying /\ NextPage
  \/ isPlaying /\ ExecuteResponse
  \/ isPlaying /\ \E request \in detectAlgorithmMutation : DetectResponse(request)
  \/ isPlaying /\ HandlePlayPause
  \/ isPlaying /\ HandleReset

PlayFairness == WF_vars(ExecuteAnswered) /\ WF_vars(DetectAnswered)

SpecPlay == InitPage /\ [][NextPlay]_vars /\ PlayFairness

\* the looked-up answers are the answers of the routes
AnswersAreResponses ==
  [][/\ ExecuteResponse <=> ExecuteAnswered
     /\ (\E request \in detectAlgorithmMutation : DetectResponse(request)) <=> DetectAnswered
    ]_vars

\* C26: after play is switched on over a non-empty step list, the cursor
\* reaches the last step in the end without a step-forward input, unless
\* pause or reset switches play off (or an answer still pending leaves the
\* page with no step at all).
C26_PlayReachesLastStep ==
  (isPlaying /\ NonEmptySteps) ~> (~isPlaying \/ ~NonEmptySteps \/ currentStep = LastIndex)

(***************************************************************************)
(* Overlapping detection requests: edits and the answers to the requests   *)
(* they sent, which arrive in any order.  onSuccess of the mutation runs   *)
(* for every answer.                                                       *)
(***************************************************************************)
InitOverlap ==
  /\ code \in OverlapCodes
  /\ detected = NoResult
  /\ IdleTrace
  /\ IdlePage
  /\ IdleStorage

NextOverlap ==
  \/ \E newCode \in OverlapCodes : HandleCodeChange(newCode)
  \/ \E request \in detectAlgorithmMutation : DetectResponse(request)

SpecOverlap == InitOverlap /\ [][NextOverlap]_vars

\* the last edit was long enough to be sent to detection: while a request
\* is pending, the code the editor holds is then the text most recently
\* submitted
LastEditSubmitted == Len(Trim(code)) > DetectThreshold

\* the response that leaves no detection request pending
LastDetectResponse == DetectAnswered /\ detectAlgorithmMutation' = {}

\* C27: when detection requests of successive edits overlap, then once all
\* responses have arrived the detected category shown is the one computed
\* for the most recently submitted text, in whatever order they arrived.
C27_LatestDetectionShown ==
  [][(LastDetectResponse /\ LastEditSubmitted) => detected' = DetectAnswers[code]]_vars

\* left, right and mid as a CALCULATE_MID step shows them (server: its
\* variables, client: its line "mid = (left + right) / 2 = mid")
BoundsOf(step) ==
  IF result.impl = "server" THEN [left |-> step.left, right |-> step.right, mid |-> step.mid]
  ELSE [left |-> step.lineContent.left, right |-> step.lineContent.right,
        mid |-> step.lineContent.mid]

MidSteps == {k \in 1..Len(StepsOf) : StepsOf[k].action = "CALCULATE_MID"}

\* C28: in every CALCULATE_MID step of a searching trace over an array of
\* length n, 0 <= left <= mid <= right <= n-1 and mid = floor((left+right)/2).
C28_MidWithinBounds ==
  SearchReturned
    => \A k \in MidSteps :
         LET b == BoundsOf(StepsOf[k])
         IN /\ 0 <= b.left /\ b.left <= b.mid /\ b.mid <= b.right
            /\ b.right <= Len(SearchArray) - 1
            /\ b.mid = (b.left + b.right) \div 2
            /\ 2 * b.mid <= b.left + b.right /\ b.left + b.right <= 2 * b.mid + 1

\* a search that moved both bounds: some CALCULATE_MID step has left > 0,
\* another has right < n-1, and one has left + right odd
C28_Witness ==
  /\ SearchReturned
  /\ result.impl = "client"
  /\ \E k \in MidSteps : BoundsOf(StepsOf[k]).left > 0
  /\ \E k \in MidSteps : BoundsOf(StepsOf[k]).right < Len(SearchArray) - 1
  /\ \E k \in MidSteps : (BoundsOf(StepsOf[k]).left + BoundsOf(StepsOf[k]).right) % 2 = 1

(***************************************************************************)
(* Properties of the client sorting trace.                                 *)
(***************************************************************************)
ClientSortReturned == Returned /\ result.impl = "client" /\ TypeOf = "sorting"

PartitionSteps == {k \in 1..Len(StepsOf) : StepsOf[k].action = "PARTITION"}

\* C29: the client sorting trace returns for every extracted array, its
\* finalState is the ascending permutation of the input array (duplicates
\* kept), and after each partition around pivot value p every element of
\* arr[low..pi-1] is <= p and every element of arr[pi+1..high] is > p.
C29_ClientQuicksortSorts ==
  /\ (call.impl = "client" /\ result # NoResult) => ~result.raised
  /\ ClientSortReturned
       => LET input == TraceOf.locals.inputArray
          IN /\ Ascending(result.finalState)
             /\ Len(result.finalState) = Len(input)
             /\ HoldsExactly(result.finalState, input, LAMBDA x : TRUE)
             /\ \A k \in PartitionSteps :
                  LET d == StepsOf[k].description
                  IN /\ \A i \in 1..Len(d.left) : d.left[i] <= d.pivotValue
                     /\ \A i \in 1..Len(d.right) : d.right[i] > d.pivotValue
                     /\ Len(d.left) + 1 + Len(d.right)
                          = StepsOf[k].lineContent.high - StepsOf[k].lineContent.low + 1

\* an unsorted literal with a duplicate, sorted with two partitions, the
\* first of which keeps the duplicate of the pivot on its left
C29_Witness ==
  /\ ClientSortReturned
  /\ TraceOf.locals.inputArray = <<2, 1, 2>>
  /\ result.finalState = <<1, 2, 2>>
  /\ Cardinality(PartitionSteps) = 2
  /\ \E k \in PartitionSteps :
       /\ StepsOf[k].description.left = <<2, 1>>
       /\ StepsOf[k].description.pivotValue = 2
  /\ \E k \in PartitionSteps :
       /\ StepsOf[k].description.right = <<2>>
       /\ StepsOf[k].description.pivotValue = 1

(***************************************************************************)
(* The algorithm examples: GET /api/algorithms and the sidebar that lists  *)
(* what the page's query fetched.                                          *)
(***************************************************************************)
\* getLocalAlgorithmExamples(): id, name and category of the examples
GetLocalAlgorithmExamples ==
  <<[id |-> "quicksort", name |-> "QuickSort", category |-> "Sorting"],
    [id |-> "binarysearch", name |-> "Binary Search", category |-> "Searching"]>>

\* GET /api/algorithms
GetAlgorithmsRoute == [status |-> 200, body |-> GetLocalAlgorithmExamples]

categoryOrder == <<"sorting", "searching", "graph", "tree", "recursion">>

\* algorithms.reduce(...): the categories that got a list
AlgorithmsByCategory(algorithms) == {algorithms[i].category : i \in 1..Len(algorithms)}

\* AlgorithmSidebar({algorithms, loading}): a skeleton while loading, else
\* one group per category of categoryOrder that has examples, in that
\* order, with its examples in the order of the list
AlgorithmSidebar(algorithms, loading) ==
  IF loading THEN [skeleton |-> TRUE, groups |-> <<>>, noExamples |-> FALSE]
  ELSE LET sortedCategories ==
             SelectSeq(categoryOrder, LAMBDA cat : cat \in AlgorithmsByCategory(algorithms))
       IN [skeleton |-> FALSE,
           groups |-> [g \in 1..Len(sortedCategories) |->
                         [category |-> sortedCategories[g],
                          buttons |-> SelectSeq(algorithms,
                                        LAMBDA a : a.category = sortedCategories[g])]],
           noExamples |-> Len(algorithms) = 0]

\* the lists the sidebar is rendered with besides the fetched one
MaxExamples == 2
ExampleIds == <<"first", "second", "third">>
ExampleCategories ==
  {"sorting", "searching", "graph", "tree", "recursion", "Sorting", "Searching", "dynamic"}
ExampleLists ==
  UNION {{[k \in 1..n |-> [id |-> ExampleIds[k], name |-> ExampleIds[k], category |-> c[k]]] :
            c \in [1..n -> ExampleCategories]} : n \in 0..MaxExamples}

\* the page mounted (its query not yet answered), or the sidebar alone with
\* given props
AlgorithmsCall == [impl |-> "algorithms"]
SidebarCall(algorithms, loading) ==
  [impl |-> "sidebar", algorithms |-> algorithms, loading |-> loading]

\* useQuery(["/api/algorithms"]) gets its answer
AlgorithmsQuery ==
  /\ call = AlgorithmsCall
  /\ result = NoResult
  /\ result' = [impl |-> "query", data |-> GetAlgorithmsRoute.body]
  /\ UNCHANGED <<call, classifyVars, pageVars, storageVars>>

\* the sidebar is rendered: by the page with algorithms || [] once the
\* query has answered, or with the props of the call
RenderSidebar ==
  /\ \/ call = AlgorithmsCall /\ result.impl = "query"
     \/ call.impl = "sidebar" /\ result = NoResult
  /\ LET algorithms == IF call = AlgorithmsCall THEN result.data ELSE call.algorithms
         loading == IF call = AlgorithmsCall THEN FALSE ELSE call.loading
     IN result' = [impl |-> "sidebar", algorithms |-> algorithms, loading |-> loading,
                   rendered |-> AlgorithmSidebar(algorithms, loading)]
  /\ UNCHANGED <<call, classifyVars, pageVars, storageVars>>

InitSidebar ==
  /\ call \in {AlgorithmsCall}
                \cup {SidebarCall(a, l) : a \in ExampleLists, l \in BOOLEAN}
  /\ result = NoResult
  /\ IdleClassify
  /\ IdlePage
  /\ IdleStorage

NextSidebar == AlgorithmsQuery \/ RenderSidebar

SpecSidebar == InitSidebar /\ [][NextSidebar]_vars

\* example a has a button in the group of its category
ListedUnderCategory(rendered, a) ==
  \E g \in 1..Len(rendered.groups) :
    /\ rendered.groups[g].category = a.category
    /\ a \in Range(rendered.groups[g].buttons)

\* C30: every example that GET /api/algorithms returns is listed in the
\* sidebar under its category.
C30_EveryExampleListed ==
  (call = AlgorithmsCall /\ result.impl = "sidebar")
    => \A i \in 1..Len(result.algorithms) :
         ListedUnderCategory(result.rendered, result.algorithms[i])

====
